---- MODULE Spec2Model ----
(***************************************************************************)
(* Job orchestration of daunrodo: the deduplicating Enqueue, the bounded   *)
(* job queue and its worker pool (internal/service), the in-memory job     *)
(* registry with its cancel functions (internal/storage) and the three     *)
(* downloader variants (internal/downloader).                              *)
(*                                                                         *)
(* Every step that the code runs under one lock, or as one channel or      *)
(* atomic operation, is one action; a handler that takes several locks is  *)
(* a sequence of actions, so that the interleavings of concurrent HTTP     *)
(* handlers and workers are the interleavings of the model.                *)
(*                                                                         *)
(* The registry is the storage whose operations take the job UUID          *)
(* (UpdateJobStatus(ctx, jobID, ...), CancelJob, UpdateJobPublications);    *)
(* the service's calls on it are made with job.UUID, as the downloaders'   *)
(* calls are.                                                               *)
(***************************************************************************)
EXTENDS Naturals, Integers, Sequences, FiniteSets, TLC

(* ---- bounds ---------------------------------------------------------- *)

\* number of distinct (url, preset) fingerprints that are ever submitted
NumIDs == 2

\* number of HTTP handlers that may run Enqueue at the same time
NumCallers == 2

\* cfg.Job.Workers: size of the worker pool
Workers == 1

\* cfg.Job.QueueSize: capacity of JobQueue
QueueSize == 1

\* the larger values of cfg.Job.Workers and cfg.Job.QueueSize, for the claims
\* about several workers and about the order of the queue
MaxWorkers == 2

MaxQueueSize == 2

\* number of progress ticks of the mock downloader (10 in the source)
MockSteps == 1

\* upper bound on the number of results a downloader run composes
MaxResults == 1

\* number of Enqueue calls that are made in one behaviour
MaxEnqueues == 2

\* number of CancelJob calls that are made in one behaviour
MaxCancels == 2

\* number of lines of a subprocess's stdout that ParseYtdlpStdout is given
MaxLines == 4

\* cfg.Proxy.MaxFailures: the failures in a row that put a proxy in backoff
MaxFailures == 2

\* cfg.Proxy.FailureBackoff, in ticks of the clock
FailureBackoff == 1

\* the cap of the backoff (one hour in the program), in ticks of the clock
maxBackoff == 2

\* upper bound on the failures in a row that are reported for one proxy; the shift
\* and the product in MarkFailed stay far below the width of time.Duration
MaxFailureCount == 4

\* the clock stops here
MaxTime == 6

(* ---- program constants ------------------------------------------------ *)

fullProgress == 100

IDs == 1..NumIDs

CallerIDs == 1..NumCallers

WorkerIDs == 1..MaxWorkers

\* the one HTTP handler that runs CancelJob
CancellerIDs == {1}

JobStatusStarting == "starting"

JobStatusDownloading == "downloading"

JobStatusError == "error"

JobStatusFinished == "finished"

JobStatusCancelled == "cancelled"

TerminalStatuses == {JobStatusFinished, JobStatusError, JobStatusCancelled}

\* the Downloader implementation handed to service.New
Downloaders == {"ytdlp", "mock", "gallerydl"}

\* absence of a job in storage.jobs, of a cancel func in storage.cancelFuncs
NoJob == [status |-> "none"]

NoWorker == 0

NoID == 0

\* a cancel func closes over the jobCtx of worker w; it is valid until that
\* execution's deferred cancel() has run
NoCancelFunc == [w |-> NoWorker, valid |-> FALSE]

\* what a call returned: the operation, its job id and the error kind ("ok" is nil)
Return(op, id, res) == [op |-> op, id |-> id, res |-> res]

NoReturn == Return("none", NoID, "none")

\* handleProgress's lastUpdate against time.Now(): handleProgress is not running;
\* lastUpdate is the time it began, or the time of its last update, and less than
\* defaultProgressFreq has passed since; defaultProgressFreq or more has passed.
\* older holds the workers whose lastUpdate is earlier and also less than
\* defaultProgressFreq ago: their interval ends first.
NoUpdate == [since |-> "none", older |-> {}]

SinceStart == "start"

SinceUpdate == "update"

RateLimitOver == [since |-> "over", older |-> {}]

\* progress percentages that a download subprocess may print
ProgressValues == {0, 25, 50}

\* the binary dependencies that are modelled: one installed as downloaded, one
\* extracted from an archive
BinaryYTdlp == "yt-dlp"

BinaryDeno == "deno"

Kinds == {BinaryYTdlp, BinaryDeno}

\* InstallAll's and CollectSHASumsURLs' order of the kinds
InstallOrder == <<BinaryDeno, BinaryYTdlp>>

SumsOrder == <<BinaryYTdlp, BinaryDeno>>

\* runtime.GOOS + "/" + runtime.GOARCH
Platforms == {"linux/arm64", "linux/amd64", "darwin/arm64"}

\* the two per-platform URL settings of a kind
Archs == {"linux/arm64", "linux/amd64"}

\* sha256 sums of the releases of a binary: the first one served and a later one
Hashes == {"aa", "bb"}

NoHash == ""

\* content of an install path: no file, a file cut short by a failed copy, or a
\* complete binary, named by its hash
NoFile == "absent"

Truncated == "truncated"

\* the goroutine that runs Manager.Start and the one StartUpdateChecker spawns
Starter == "start"

Checker == "checker"

DepProcs == {Starter, Checker}

\* the empty map that New constructs for shaSums and savedSums
NoSums == [k \in Kinds |-> NoHash]

\* a sums file that a failed write left empty or cut short: no JSON document
TornSums == [k \in Kinds |-> Truncated]

NoKind == ""

\* getBinaryURL's result when no URL is selected
NoURL == ""

\* GetBinaryPath: filepath.Join(cfg.DepManager.BinsDir, name)
GetBinaryPath(name) == "/bins/" \o name

\* the keys that binPaths is given: setBinaryPath is called with a kind by InstallAll
\* and with BinaryName(path) of an installed path by downloadAndInstall
BinPathKeys == Kinds \cup {GetBinaryPath(k) : k \in Kinds}

NoDepReturn == Return("none", NoKind, "none")

VARIABLES
    downloader,     \* svc.Downloader, fixed at construction
    jobs,           \* storage.jobs: job UUID -> entity.Job
    publications,   \* storage.publications: the stored publication ids
    cancelFuncs,    \* storage.cancelFuncs: job UUID -> the worker whose jobCtx it cancels
    JobQueue,       \* svc.JobQueue: the buffered channel, as a sequence of job UUIDs
    closed,         \* svc.closed
    ctxDone,        \* the context given to Start is done
    epc,            \* position of each Enqueue caller
    eid,            \* fingerprint of the call in progress
    cpc,            \* position of each CancelJob caller
    cid,            \* job id of the CancelJob call
    cfn,            \* the cancel func that CancelJob read: [w, valid]
    wpc,            \* position of each worker
    wjob,           \* job UUID the worker is processing
    wctx,           \* jobCtx.Err() of that execution: "live", "canceled", "deadline"
    wstep,          \* mock: the tick counter step; storePublications: the loop index
    wres,           \* number of results the run composed
    werr,           \* the error that Process returned
    calls,          \* number of Enqueue and of CancelJob calls made so far
    ret,            \* what the step just taken returned to its caller, if it returned
    cancelled,      \* the workers whose execution a CancelJob cancelled and returned nil for
    pastExpiry,     \* the job UUIDs whose job has ExpiresAt before time.Now()
    files,          \* the files on disk that publications name, as publication ids
    sweepPC,        \* position of the CleanupExpiredJobs goroutine
    expiredJobs,    \* performCleanup: the jobs collected that are still to be cleaned up
    cleanupIdx,     \* cleanupJob: index of the loop over job.Publications
    replacedJob,    \* the *entity.Job that expiredJobs holds, where SetJob replaced the entry
    platform,       \* Manager.platform
    urlConfigured,  \* cfg.DepManager: which of the per-platform download URLs are non-empty
    remote,         \* the release server: kind -> hash of the binary it serves and lists
    binFile,        \* the bins directory: kind -> hash of the content at GetBinaryPath(kind)
    sumsFile,       \* the content of .sha256sums.json
    shaSums,        \* Manager.shaSums
    savedSums,      \* Manager.savedSums
    binPaths,       \* Manager.binPaths
    isUpdating,     \* Manager.isUpdating
    tickPending,    \* the update checker's ticker.C holds a tick
    dpc,            \* position of the goroutine that runs Start and of the update checker
    dkind,          \* the kind that goroutine is installing
    dstep,          \* FetchSHASums, InstallAll: the loop index
    dtmp,           \* downloadDependency: hash of the content of the temporary file
    updates,        \* checkAndUpdate: the kinds of findUpdates still to be installed
    failedUpdates,  \* the kinds whose last update by checkAndUpdate failed
    dret,           \* what the dependency manager's step just taken returned, if it returned
    got,            \* the entity.Job that the HTTP handler which read last holds
    workers,        \* cfg.Job.Workers: the number of workers that Start launches
    queueSize,      \* cfg.Job.queueSize: the capacity JobQueue was made with
    lastUpdate,     \* handleProgress: how its lastUpdate stands to time.Now()
    stdout,         \* ParseYtdlpStdout: the lines of its argument
    lineNo,         \* ParseYtdlpStdout: lineNo, the number of lines scanned
    results,        \* ParseYtdlpStdout: res, the results parsed so far
    request,        \* the (url, preset) a caller passes to Enqueue
    fingerprint,    \* Enqueue's url, the id GetJobByURLAndPreset looks up, job.UUID
    media,          \* per job: the media item (res.ID, res.Filename) yt-dlp yields for it
    proxies,        \* proxymgr.Manager.proxies: State, FailureCount, BackoffUntil per proxy
    now,            \* time.Now(), in ticks
    selected        \* the last call of GetRandomProxy or GetProxy and what it returned

vars == <<downloader, jobs, publications, cancelFuncs, JobQueue, closed, ctxDone,
          epc, eid, cpc, cid, cfn, wpc, wjob, wctx, wstep, wres, werr, calls, ret,
          cancelled, pastExpiry, files, sweepPC, expiredJobs, cleanupIdx, replacedJob,
          platform, urlConfigured, remote, binFile, sumsFile, shaSums, savedSums,
          binPaths, isUpdating, tickPending, dpc, dkind, dstep, dtmp, updates,
          failedUpdates, dret, got, workers, queueSize, lastUpdate,
          stdout, lineNo, results, request, fingerprint, media, proxies, now, selected>>

storageVars == <<jobs, publications, cancelFuncs>>

callerVars == <<epc, eid>>

cancellerVars == <<cpc, cid, cfn>>

workerVars == <<wpc, wjob, wctx, wstep, wres, werr, lastUpdate>>

sweeperVars == <<sweepPC, expiredJobs, cleanupIdx>>

cleanupVars == <<pastExpiry, files, sweeperVars, replacedJob>>

\* the state of the job service and its registry, but for ret and ctxDone
serviceVarsButRet == <<downloader, storageVars, JobQueue, closed, callerVars, cancellerVars,
                       workerVars, calls, cancelled>>

depConfigVars == <<platform, urlConfigured>>

depDiskVars == <<binFile, sumsFile>>

depManagerVars == <<shaSums, savedSums, binPaths, isUpdating>>

depProcVars == <<dpc, dkind, dstep, dtmp, updates>>

\* everything but the dependency manager
jobVars == <<serviceVarsButRet, ret, ctxDone, cleanupVars>>

depVars == <<depConfigVars, remote, depDiskVars, depManagerVars, tickPending, depProcVars,
             failedUpdates, dret>>

\* what the readers of the registry hold
readerVars == <<got>>

\* the sizes that service.New and Start read from cfg.Job
poolVars == <<workers, queueSize>>

\* the locals of a call of ParseYtdlpStdout
parseVars == <<stdout, lineNo, results>>

\* what Enqueue and GetJobByURLAndPreset compute from one request
fingerprintVars == <<request, fingerprint>>

\* the proxy manager and its clock
proxyVars == <<proxies, now, selected>>

(* ---- internal/storage -------------------------------------------------- *)

\* the entity.Job that Enqueue constructs
NewJob == [status |-> JobStatusStarting, progress |-> 0, error |-> "", pubs |-> 0]

\* storage.SetJob: insert or replace by UUID
SetJob(js, id, job) == [js EXCEPT ![id] = job]

\* storage.GetJobByURLAndPreset: the copy of the job, or NoJob
GetJobByURLAndPreset(js, id) == js[id]

\* an update that creates the record when the id is unknown
UpdateJobStatus_Upsert(js, id, status, progress, errorMsg) ==
    [js EXCEPT ![id] =
        [status   |-> status,
         progress |-> IF progress # 0 \/ js[id] = NoJob THEN progress ELSE js[id].progress,
         error    |-> IF errorMsg # "" \/ js[id] = NoJob THEN errorMsg ELSE js[id].error,
         pubs     |-> IF js[id] = NoJob THEN 0 ELSE js[id].pubs]]

\* an update that overwrites progress and error message with whatever is passed
UpdateJobStatus_Overwrite(js, id, status, progress, errorMsg) ==
    IF js[id] = NoJob
    THEN js
    ELSE [js EXCEPT ![id] =
            [status |-> status, progress |-> progress, error |-> errorMsg, pubs |-> js[id].pubs]]

\* storage.UpdateJobStatus: status always, progress iff non-zero, error iff non-empty;
\* an unknown id changes nothing
UpdateJobStatus(js, id, status, progress, errorMsg) ==
    IF js[id] = NoJob
    THEN js
    ELSE [js EXCEPT ![id] =
            [status   |-> status,
             progress |-> IF progress # 0 THEN progress ELSE js[id].progress,
             error    |-> IF errorMsg # "" THEN errorMsg ELSE js[id].error,
             pubs     |-> js[id].pubs]]

\* storage.UpdateJobPublications
UpdateJobPublications(js, id, n) ==
    IF js[id] = NoJob
    THEN js
    ELSE [js EXCEPT ![id].pubs = n]

\* a returned Job that is the registry's own entry, not a copy of it
copyJob_Shared(id, job) == [shared |-> TRUE, id |-> id, job |-> job]

\* copyJob: a Job value of the caller's own, with a Publications slice of its own
copyJob(id, job) == [shared |-> FALSE, id |-> id, job |-> job]

\* storage.GetJobByID: under mu, the copy of the job
GetJobByID(js, id) == copyJob(id, js[id])

\* the handler holds no Job
NoGot == [shared |-> FALSE, id |-> NoID, job |-> NoJob]

\* the Job that the holder of g reads now
Held(g) == IF g.shared THEN jobs[g.id] ELSE g.job

\* the Job that the holder of g reads after the step
HeldNext(g) == IF g.shared THEN jobs'[g.id] ELSE g.job

(* ---- initial state ----------------------------------------------------- *)

\* storage.New and service.New
ServiceInit ==
    /\ downloader \in Downloaders
    /\ jobs = [id \in IDs |-> NoJob]
    /\ publications = {}
    /\ cancelFuncs = [id \in IDs |-> NoWorker]
    /\ JobQueue = <<>>
    /\ closed = FALSE
    /\ ctxDone = FALSE
    /\ epc = [e \in CallerIDs |-> "idle"]
    /\ eid = [e \in CallerIDs |-> NoID]
    /\ cpc = [c \in CancellerIDs |-> "idle"]
    /\ cid = [c \in CancellerIDs |-> NoID]
    /\ cfn = [c \in CancellerIDs |-> NoCancelFunc]
    /\ wpc = [w \in WorkerIDs |-> "idle"]
    /\ wjob = [w \in WorkerIDs |-> NoID]
    /\ wctx = [w \in WorkerIDs |-> "live"]
    /\ wstep = [w \in WorkerIDs |-> 0]
    /\ wres = [w \in WorkerIDs |-> 0]
    /\ werr = [w \in WorkerIDs |-> ""]
    /\ lastUpdate = [w \in WorkerIDs |-> NoUpdate]
    /\ calls = [enqueue |-> 0, cancel |-> 0]
    /\ ret = NoReturn
    /\ cancelled = {}

\* the cleanup goroutine that storage.New starts, and an empty downloads directory
CleanupInit ==
    /\ pastExpiry = {}
    /\ files = {}
    /\ sweepPC = "idle"
    /\ expiredJobs = <<>>
    /\ cleanupIdx = 0
    /\ replacedJob = [id \in IDs |-> NoJob]

\* depmanager.New on some platform with some configuration, over a bins directory
\* that a previous run may have filled; the release server serves the first release
DepInit ==
    /\ platform \in Platforms
    /\ urlConfigured \in [Archs -> BOOLEAN]
    /\ remote = [k \in Kinds |-> "aa"]
    /\ binFile \in [Kinds -> {NoFile, "aa"}]
    /\ sumsFile \in {NoSums, TornSums, [k \in Kinds |-> "aa"]}
    /\ shaSums = NoSums
    /\ savedSums = NoSums
    /\ binPaths = [key \in BinPathKeys |-> ""]
    /\ isUpdating = FALSE
    /\ tickPending = FALSE
    /\ dpc = [p \in DepProcs |-> IF p = Starter THEN "new" ELSE "off"]
    /\ dkind = [p \in DepProcs |-> NoKind]
    /\ dstep = [p \in DepProcs |-> 0]
    /\ dtmp = [p \in DepProcs |-> NoFile]
    /\ updates = {}
    /\ failedUpdates = {}
    /\ dret = NoDepReturn

\* the job service on linux/amd64 with every URL configured and every binary in place
DepInstalled ==
    /\ platform = "linux/amd64"
    /\ urlConfigured = [a \in Archs |-> TRUE]
    /\ binFile = [k \in Kinds |-> "aa"]
    /\ sumsFile = [k \in Kinds |-> "aa"]

\* no HTTP handler has read a job
ReaderInit == got = NoGot

NoUUID == <<>>

\* cfg.Proxy.Proxies, in the order of the list
order == <<"socks5h://a:1080", "socks5h://b:1080">>

\* the proxy urls callers pass: the configured ones and one that is not configured
ProxyURLs == {order[i] : i \in 1..Len(order)} \cup {"socks5h://c:1080"}

\* the zero time.Time: before every time.Now()
ZeroTime == 0

NoSelection == [op |-> "none", arg |-> "", proxy |-> "", ok |-> FALSE]

\* proxymgr.New: every configured proxy available, no failures
New ==
    /\ proxies = [p \in {order[i] : i \in 1..Len(order)} |->
                    [State |-> "ProxyStateAvailable", FailureCount |-> 0,
                     BackoffUntil |-> ZeroTime]]
    /\ now = 1
    /\ selected = NoSelection

\* the jobs' urls lead to media items of their own
OwnMediaInit == media = [id \in IDs |-> id]

\* composePublications: pub.UUID = gen.UUIDv5(res.ID, res.Filename), for the i-th
\* result of the job id; the file name comes from the filename template, which
\* holds extractor, title, media id and extension
PublicationUUID(id, i) == <<media[id], i>>

\* no caller has passed a request to Enqueue
NoRequestInit ==
    /\ request = [url |-> "", preset |-> ""]
    /\ fingerprint = [pc |-> "idle", url |-> "", lookupID |-> NoUUID, UUID |-> NoUUID]

\* ParseYtdlpStdout is not running
ParserInit ==
    /\ stdout = <<>>
    /\ lineNo = 0
    /\ results = <<>>

\* cfg.Job with one worker and a queue of one job
PoolInit ==
    /\ workers = Workers
    /\ queueSize = QueueSize

\* cfg.Job with two workers and a queue of two jobs
LargePoolInit ==
    /\ workers = MaxWorkers
    /\ queueSize = MaxQueueSize

Init ==
    /\ ParserInit
    /\ NoRequestInit
    /\ OwnMediaInit
    /\ New
    /\ ReaderInit
    /\ PoolInit
    /\ ServiceInit
    /\ CleanupInit
    /\ DepInit
    /\ DepInstalled

(* ---- internal/downloader: ParseYtdlpStdout ------------------------------ *)

\* lines that yt-dlp prints: two results (--print-json), the second with a
\* filename of its own; two file paths (--print after_move:filepath), the second
\* with a blank in front; a progress line; a line of blanks
Lines ==
    {"{\"id\":\"one\"}", "{\"id\":\"two\",\"filename\":\"/tmp/two.webm\"}",
     "/tmp/a.mp4", " /tmp/b.mkv", "[download] 100% of 1.00MiB", "  "}

\* strings.TrimSpace
TrimSpace(line) ==
    CASE line = " /tmp/b.mkv" -> "/tmp/b.mkv"
      [] line = "  " -> ""
      [] line = " https://e.x/v?id=1 " -> "https://e.x/v?id=1"
      [] line = " https://e.x/%zz" -> "https://e.x/%zz"
      [] OTHER -> line

\* json.Unmarshal([]byte(line), &r): err == nil and r for a line that is one JSON object
Unmarshal(line) ==
    CASE line = "{\"id\":\"one\"}"
            -> [ok |-> TRUE, r |-> [ID |-> "one", Filename |-> ""]]
      [] line = "{\"id\":\"two\",\"filename\":\"/tmp/two.webm\"}"
            -> [ok |-> TRUE, r |-> [ID |-> "two", Filename |-> "/tmp/two.webm"]]
      [] OTHER -> [ok |-> FALSE, r |-> [ID |-> "", Filename |-> ""]]

\* reFilepath.MatchString(line), (?i)^[^\{\[\n].*\.[a-z0-9]{1,6}$: the line does not
\* begin with a brace or bracket and ends in a file extension
reFilepath(line) == line \in {"/tmp/a.mp4", "/tmp/b.mkv"}

\* the file path given to the first result
setFilename_First(rs, line) ==
    IF Len(rs) > 0 THEN [rs EXCEPT ![1].Filename = line] ELSE rs

\* if resultNo > 0 { res[resultNo-1].Filename = line }
setFilename(rs, line) ==
    IF Len(rs) > 0 THEN [rs EXCEPT ![Len(rs)].Filename = line] ELSE rs

\* ParseYtdlpStdout: one turn of the loop over scanner.Scan()
ParseYtdlpStdout_Scan ==
    /\ lineNo < Len(stdout)
    /\ lineNo' = lineNo + 1
    /\ LET line == TrimSpace(stdout[lineNo + 1])
       IN results' = IF line = "" THEN results
                     ELSE IF Unmarshal(line).ok THEN Append(results, Unmarshal(line).r)
                     ELSE IF reFilepath(line) THEN setFilename(results, line)
                     ELSE results
    /\ ret' = NoReturn
    /\ UNCHANGED <<stdout, jobVars, depVars, readerVars, poolVars, fingerprintVars, media, proxyVars>>

\* ParseYtdlpStdout: the scanner is at the end; return res, nil
ParseYtdlpStdout_Return ==
    /\ lineNo = Len(stdout)
    /\ ret = NoReturn
    /\ ret' = Return("ParseYtdlpStdout", NoID, "ok")
    /\ UNCHANGED <<serviceVarsButRet, ctxDone, cleanupVars, depVars, readerVars, poolVars, parseVars, fingerprintVars, media, proxyVars>>

(* ---- internal/service: Enqueue ----------------------------------------- *)

\* the number of Enqueue calls that are made in one behaviour: MaxEnqueues with a
\* queue of QueueSize jobs, and one more for every further place of the queue, so
\* that the queue can run full
EnqueueBudget == MaxEnqueues + (queueSize - QueueSize)

\* the test without its second half: a job in error is never replaced
EnqueueCreates_OnlyAbsent(job) == job = NoJob

\* Enqueue's test of the looked-up job: a new job is created unless a job
\* exists whose status is not error
EnqueueCreates(job) == job = NoJob \/ job.status = JobStatusError

\* HTTP handlers are interchangeable: a new call runs in the first free one
FirstIdle(e) == epc[e] = "idle" /\ \A f \in CallerIDs : f < e => epc[f] # "idle"

\* Enqueue is called; svc.closed.Load()
Enqueue_Closed(e, id) ==
    /\ FirstIdle(e)
    /\ calls.enqueue < EnqueueBudget
    /\ calls' = [calls EXCEPT !.enqueue = calls.enqueue + 1]
    /\ IF closed
       THEN /\ ret' = Return("Enqueue", id, "service_closed")
            /\ UNCHANGED <<epc, eid>>
       ELSE /\ epc' = [epc EXCEPT ![e] = "lookup"]
            /\ eid' = [eid EXCEPT ![e] = id]
            /\ ret' = NoReturn
    /\ UNCHANGED <<cancelled, downloader, cleanupVars, depVars, storageVars, JobQueue, closed, ctxDone, cancellerVars, workerVars, readerVars, poolVars, parseVars, fingerprintVars, media, proxyVars>>

\* svc.Storer.GetJobByURLAndPreset and the test on its result
Enqueue_Lookup(e) ==
    /\ epc[e] = "lookup"
    /\ IF EnqueueCreates(GetJobByURLAndPreset(jobs, eid[e]))
       THEN /\ epc' = [epc EXCEPT ![e] = "set"]
            /\ eid' = eid
            /\ ret' = NoReturn
       ELSE /\ epc' = [epc EXCEPT ![e] = "idle"]
            /\ eid' = [eid EXCEPT ![e] = NoID]
            /\ ret' = Return("Enqueue", eid[e], "job_already_exists")
    /\ UNCHANGED <<calls, cancelled, downloader, cleanupVars, depVars, storageVars, JobQueue, closed, ctxDone,
                   cancellerVars, workerVars, readerVars, poolVars, parseVars, fingerprintVars, media, proxyVars>>

\* the jobs that performCleanup collected and has not cleaned up yet
Collected == {expiredJobs[i] : i \in 1..Len(expiredJobs)}

\* svc.Storer.SetJob(ctx, job) with the newly constructed job, whose ExpiresAt is
\* time.Now().Add(TTL); a *entity.Job that performCleanup collected stays what it was
Enqueue_SetJob(e) ==
    /\ epc[e] = "set"
    /\ jobs' = SetJob(jobs, eid[e], NewJob)
    /\ pastExpiry' = pastExpiry \ {eid[e]}
    /\ replacedJob' = IF eid[e] \in Collected /\ replacedJob[eid[e]] = NoJob
                      THEN [replacedJob EXCEPT ![eid[e]] = jobs[eid[e]]]
                      ELSE replacedJob
    /\ epc' = [epc EXCEPT ![e] = "send"]
    /\ ret' = NoReturn
    /\ UNCHANGED <<calls, cancelled, downloader, files, sweeperVars, depVars, publications,
                   cancelFuncs, JobQueue, closed, ctxDone, eid, cancellerVars, workerVars, readerVars, poolVars, parseVars, fingerprintVars, media, proxyVars>>

\* a send that puts the job in front of the waiting ones
chansend_Front(q, job) == <<job>> \o q

\* svc.JobQueue <- job on the buffered channel: the job goes behind the waiting ones
chansend(q, job) == Append(q, job)

\* select: case svc.JobQueue <- job
Enqueue_Send(e) ==
    /\ epc[e] = "send"
    /\ Len(JobQueue) < queueSize
    /\ JobQueue' = chansend(JobQueue, eid[e])
    /\ epc' = [epc EXCEPT ![e] = "idle"]
    /\ eid' = [eid EXCEPT ![e] = NoID]
    /\ ret' = Return("Enqueue", eid[e], "ok")
    /\ UNCHANGED <<calls, cancelled, downloader, cleanupVars, depVars, storageVars, closed, ctxDone,
                   cancellerVars, workerVars, readerVars, poolVars, parseVars, fingerprintVars, media, proxyVars>>

\* select: case <-ctx.Done(), ready when the caller's request context is done
Enqueue_CtxDone(e) ==
    /\ epc[e] = "send"
    /\ epc' = [epc EXCEPT ![e] = "idle"]
    /\ eid' = [eid EXCEPT ![e] = NoID]
    /\ ret' = Return("Enqueue", eid[e], "enqueue_cancelled")
    /\ UNCHANGED <<calls, cancelled, downloader, cleanupVars, depVars, storageVars, JobQueue, closed, ctxDone,
                   cancellerVars, workerVars, readerVars, poolVars, parseVars, fingerprintVars, media, proxyVars>>

\* select: default, taken when no other case is ready
Enqueue_Default(e) ==
    /\ epc[e] = "send"
    /\ Len(JobQueue) >= queueSize
    /\ epc' = [epc EXCEPT ![e] = "full"]
    /\ ret' = NoReturn
    /\ UNCHANGED <<calls, cancelled, downloader, cleanupVars, depVars, storageVars, JobQueue, closed, ctxDone, eid,
                   cancellerVars, workerVars, readerVars, poolVars, parseVars, fingerprintVars, media, proxyVars>>

\* the default branch without its UpdateJobStatus: the job stays as it was inserted
Enqueue_QueueFull_KeepsStatus(e) ==
    /\ epc[e] = "full"
    /\ epc' = [epc EXCEPT ![e] = "idle"]
    /\ eid' = [eid EXCEPT ![e] = NoID]
    /\ ret' = Return("Enqueue", eid[e], "queue_full")
    /\ UNCHANGED <<calls, cancelled, downloader, cleanupVars, depVars, storageVars, JobQueue, closed, ctxDone,
                   cancellerVars, workerVars, readerVars, poolVars, parseVars, fingerprintVars, media, proxyVars>>

\* default branch: UpdateJobStatus(error, 0, "job queue is full"), return ErrJobQueueFull
Enqueue_QueueFull(e) ==
    /\ epc[e] = "full"
    /\ jobs' = UpdateJobStatus(jobs, eid[e], JobStatusError, 0, "job queue is full")
    /\ epc' = [epc EXCEPT ![e] = "idle"]
    /\ eid' = [eid EXCEPT ![e] = NoID]
    /\ ret' = Return("Enqueue", eid[e], "queue_full")
    /\ UNCHANGED <<calls, cancelled, downloader, cleanupVars, depVars, publications, cancelFuncs, JobQueue, closed, ctxDone,
                   cancellerVars, workerVars, readerVars, poolVars, parseVars, fingerprintVars, media, proxyVars>>

Enqueue(e) ==
    \/ \E id \in IDs : Enqueue_Closed(e, id)
    \/ Enqueue_Lookup(e)
    \/ Enqueue_SetJob(e)
    \/ Enqueue_Send(e)
    \/ Enqueue_CtxDone(e)
    \/ Enqueue_Default(e)
    \/ Enqueue_QueueFull(e)

(* ---- internal/service: worker and processJob --------------------------- *)

\* worker: case job, ok := <-svc.JobQueue; processJob derives jobCtx from ctx
worker_Receive(w) ==
    /\ w <= workers
    /\ wpc[w] = "idle"
    /\ JobQueue # <<>>
    /\ JobQueue' = Tail(JobQueue)
    /\ wjob' = [wjob EXCEPT ![w] = Head(JobQueue)]
    /\ wctx' = [wctx EXCEPT ![w] = IF ctxDone THEN "canceled" ELSE "live"]
    /\ wpc' = [wpc EXCEPT ![w] = "register"]
    /\ ret' = NoReturn
    /\ UNCHANGED <<calls, cancelled, downloader, cleanupVars, depVars, storageVars, closed, ctxDone, callerVars, cancellerVars,
                   wstep, wres, werr, readerVars, lastUpdate, poolVars, parseVars, fingerprintVars, media, proxyVars>>

\* worker: case <-ctx.Done(): svc.closed.Store(true); return
worker_CtxDone(w) ==
    /\ w <= workers
    /\ wpc[w] = "idle"
    /\ ctxDone
    /\ closed' = TRUE
    /\ wpc' = [wpc EXCEPT ![w] = "exited"]
    /\ ret' = NoReturn
    /\ UNCHANGED <<calls, cancelled, downloader, cleanupVars, depVars, storageVars, JobQueue, ctxDone, callerVars, cancellerVars,
                   wjob, wctx, wstep, wres, werr, readerVars, lastUpdate, poolVars, parseVars, fingerprintVars, media, proxyVars>>

\* storage.RegisterCancelFunc
RegisterCancelFunc(cf, id, w) == [cf EXCEPT ![id] = w]

\* storage.UnregisterCancelFunc
UnregisterCancelFunc(cf, id) == [cf EXCEPT ![id] = NoWorker]

\* processJob: svc.Storer.RegisterCancelFunc(job.UUID, cancel)
processJob_Register(w) ==
    /\ wpc[w] = "register"
    /\ cancelFuncs' = RegisterCancelFunc(cancelFuncs, wjob[w], w)
    /\ wpc' = [wpc EXCEPT ![w] = "start"]
    /\ ret' = NoReturn
    /\ UNCHANGED <<calls, cancelled, downloader, cleanupVars, depVars, jobs, publications, JobQueue, closed, ctxDone,
                   callerVars, cancellerVars, wjob, wctx, wstep, wres, werr, readerVars, lastUpdate, poolVars, parseVars, fingerprintVars, media, proxyVars>>

\* the test as jobCtx.Err() != nil: an expired deadline counts as a cancellation
processJobErrStatus_AnyCtxErr(ctxErr) ==
    IF ctxErr # "live" THEN JobStatusCancelled ELSE JobStatusError

\* the status and message processJob writes when Process returned an error:
\* cancelled iff jobCtx.Err() == context.Canceled, else error with err.Error()
processJobErrStatus(ctxErr) ==
    IF ctxErr = "canceled" THEN JobStatusCancelled ELSE JobStatusError

processJobErrMsg(ctxErr, err) ==
    IF ctxErr = "canceled" THEN "job cancelled by user" ELSE err

\* processJob: err != nil
processJob_Error(w) ==
    /\ wpc[w] = "failed"
    /\ jobs' = UpdateJobStatus(jobs, wjob[w], processJobErrStatus(wctx[w]), 0,
                               processJobErrMsg(wctx[w], werr[w]))
    /\ wpc' = [wpc EXCEPT ![w] = "unregister"]
    /\ ret' = NoReturn
    /\ UNCHANGED <<calls, cancelled, downloader, cleanupVars, depVars, publications, cancelFuncs, JobQueue, closed, ctxDone,
                   callerVars, cancellerVars, wjob, wctx, wstep, wres, werr, readerVars, lastUpdate, poolVars, parseVars, fingerprintVars, media, proxyVars>>

\* processJob returns: defer UnregisterCancelFunc(job.UUID), defer cancel();
\* a cancel func of this execution that CancelJob still holds cancels nothing any more
processJob_Return(w) ==
    /\ wpc[w] = "unregister"
    /\ cancelFuncs' = UnregisterCancelFunc(cancelFuncs, wjob[w])
    /\ cfn' = [c \in CancellerIDs |->
                 IF cfn[c].w = w THEN [cfn[c] EXCEPT !.valid = FALSE] ELSE cfn[c]]
    /\ wpc' = [wpc EXCEPT ![w] = "idle"]
    /\ wjob' = [wjob EXCEPT ![w] = NoID]
    /\ wctx' = [wctx EXCEPT ![w] = "live"]
    /\ wstep' = [wstep EXCEPT ![w] = 0]
    /\ wres' = [wres EXCEPT ![w] = 0]
    /\ werr' = [werr EXCEPT ![w] = ""]
    /\ cancelled' = cancelled \ {w}
    /\ ret' = NoReturn
    /\ UNCHANGED <<calls, downloader, cleanupVars, depVars, jobs, publications, JobQueue, closed, ctxDone,
                   callerVars, cpc, cid, readerVars, lastUpdate, poolVars, parseVars, fingerprintVars, media, proxyVars>>

\* the worker is between the creation of jobCtx and its deferred cancel()
Executing(w) == wpc[w] \notin {"idle", "exited"}

\* cfg.Job.Timeout elapses: jobCtx.Err() becomes context.DeadlineExceeded
JobTimeout(w) ==
    /\ Executing(w)
    /\ wctx[w] = "live"
    /\ wctx' = [wctx EXCEPT ![w] = "deadline"]
    /\ ret' = NoReturn
    /\ UNCHANGED <<calls, cancelled, downloader, cleanupVars, depVars, storageVars, JobQueue, closed, ctxDone, callerVars,
                   cancellerVars, wpc, wjob, wstep, wres, werr, readerVars, lastUpdate, poolVars, parseVars, fingerprintVars, media, proxyVars>>

\* the context given to Start is cancelled (SIGINT); every live jobCtx is its child
Shutdown ==
    /\ ~ctxDone
    /\ ctxDone' = TRUE
    /\ wctx' = [w \in WorkerIDs |->
                  IF Executing(w) /\ wctx[w] = "live" THEN "canceled" ELSE wctx[w]]
    /\ ret' = NoReturn
    /\ UNCHANGED <<calls, cancelled, downloader, cleanupVars, depVars, storageVars, JobQueue, closed, callerVars,
                   cancellerVars, wpc, wjob, wstep, wres, werr, readerVars, lastUpdate, poolVars, parseVars, fingerprintVars, media, proxyVars>>

(* ---- internal/downloader ----------------------------------------------- *)

\* lastUpdate = time.Now() in worker w's handleProgress, at its start or at an update
Now(w, since) ==
    [since |-> since,
     older |-> {v \in WorkerIDs \ {w} : lastUpdate[v].since \in {SinceStart, SinceUpdate}}]

\* worker w's lastUpdate changes: it is no longer earlier than another worker's
SetLastUpdate(w, lu) ==
    [v \in WorkerIDs |-> IF v = w THEN lu
                                  ELSE [lastUpdate[v] EXCEPT !.older = @ \ {w}]]

\* Process of every variant: UpdateJobStatus(job.UUID, downloading, 0, ""); YTdlp
\* and GalleryDL then start the subprocess and handleProgress, which begins with
\* lastUpdate := time.Now()
Process_Start(w) ==
    /\ wpc[w] = "start"
    /\ jobs' = UpdateJobStatus(jobs, wjob[w], JobStatusDownloading, 0, "")
    /\ wpc' = [wpc EXCEPT ![w] = "run"]
    /\ wstep' = [wstep EXCEPT ![w] = 0]
    /\ lastUpdate' = SetLastUpdate(w, IF downloader = "mock" THEN NoUpdate ELSE Now(w, SinceStart))
    /\ ret' = NoReturn
    /\ UNCHANGED <<calls, cancelled, downloader, cleanupVars, depVars, publications, cancelFuncs, JobQueue, closed, ctxDone,
                   callerVars, cancellerVars, wjob, wctx, wres, werr, readerVars, poolVars, parseVars, fingerprintVars, media, proxyVars>>

\* simulateDownload: progress := step * (fullProgress / steps)
mockProgress(step) == step * (fullProgress \div MockSteps)

\* mock, simulateDownload: case <-ticker.C, while step <= steps; the select may take
\* it also when ctx.Done() is ready
mock_Tick(w) ==
    /\ downloader = "mock"
    /\ wpc[w] = "run"
    /\ wstep[w] <= MockSteps
    /\ jobs' = UpdateJobStatus(jobs, wjob[w], JobStatusDownloading, mockProgress(wstep[w]), "")
    /\ wstep' = [wstep EXCEPT ![w] = wstep[w] + 1]
    /\ ret' = NoReturn
    /\ UNCHANGED <<calls, cancelled, downloader, cleanupVars, depVars, publications, cancelFuncs, JobQueue, closed, ctxDone,
                   callerVars, cancellerVars, wpc, wjob, wctx, wres, werr, readerVars, lastUpdate, poolVars, parseVars, fingerprintVars, media, proxyVars>>

\* mock, simulateDownload: case <-ctx.Done(); Process writes error and returns err
mock_CtxDone(w) ==
    /\ downloader = "mock"
    /\ wpc[w] = "run"
    /\ wstep[w] <= MockSteps
    /\ wctx[w] # "live"
    /\ jobs' = UpdateJobStatus(jobs, wjob[w], JobStatusError, 0, "context " \o wctx[w])
    /\ werr' = [werr EXCEPT ![w] = "context " \o wctx[w]]
    /\ wpc' = [wpc EXCEPT ![w] = "failed"]
    /\ ret' = NoReturn
    /\ UNCHANGED <<calls, cancelled, downloader, cleanupVars, depVars, publications, cancelFuncs, JobQueue, closed, ctxDone,
                   callerVars, cancellerVars, wjob, wctx, wstep, wres, readerVars, lastUpdate, poolVars, parseVars, fingerprintVars, media, proxyVars>>

\* mock: the loop is over; UpdateJobStatus(finished, fullProgress, ""), return nil
mock_Finish(w) ==
    /\ downloader = "mock"
    /\ wpc[w] = "run"
    /\ wstep[w] > MockSteps
    /\ jobs' = UpdateJobStatus(jobs, wjob[w], JobStatusFinished, fullProgress, "")
    /\ wpc' = [wpc EXCEPT ![w] = "unregister"]
    /\ ret' = NoReturn
    /\ UNCHANGED <<calls, cancelled, downloader, cleanupVars, depVars, publications, cancelFuncs, JobQueue, closed, ctxDone,
                   callerVars, cancellerVars, wjob, wctx, wstep, wres, werr, readerVars, lastUpdate, poolVars, parseVars, fingerprintVars, media, proxyVars>>

\* handleProgress goes on to UpdateJobStatus unless
\* time.Since(lastUpdate) < defaultProgressFreq
RateLimitPassed(lu) == lu = RateLimitOver

\* YTdlp / GalleryDL handleProgress: a progress line of the subprocess is read
\* (lines still buffered in the pipe are read after the process was killed)
handleProgress(w, progress) ==
    /\ downloader \in {"ytdlp", "gallerydl"}
    /\ wpc[w] = "run"
    /\ RateLimitPassed(lastUpdate[w])
    /\ lastUpdate' = SetLastUpdate(w, Now(w, SinceUpdate))
    /\ jobs' = UpdateJobStatus(jobs, wjob[w], JobStatusDownloading, progress, "")
    /\ ret' = NoReturn
    /\ UNCHANGED <<calls, cancelled, downloader, cleanupVars, depVars, publications, cancelFuncs, JobQueue, closed, ctxDone,
                   callerVars, cancellerVars, wpc, wjob, wctx, wstep, wres, werr, readerVars, poolVars, parseVars, fingerprintVars, media, proxyVars>>

\* defaultProgressFreq has passed since handleProgress's lastUpdate: the intervals
\* are equally long, so they end in the order in which they began
handleProgress_RateLimitOver(w) ==
    /\ downloader \in {"ytdlp", "gallerydl"}
    /\ wpc[w] = "run"
    /\ lastUpdate[w].since \in {SinceStart, SinceUpdate}
    /\ lastUpdate[w].older = {}
    /\ lastUpdate' = SetLastUpdate(w, RateLimitOver)
    /\ ret' = NoReturn
    /\ UNCHANGED <<calls, cancelled, downloader, cleanupVars, depVars, storageVars, JobQueue, closed, ctxDone,
                   callerVars, cancellerVars, wpc, wjob, wctx, wstep, wres, werr, readerVars, poolVars, parseVars, fingerprintVars, media, proxyVars>>

\* YTdlp / GalleryDL: cmd.Wait() returns nil: the subprocess exited with code 0
Process_WaitOK(w) ==
    /\ downloader \in {"ytdlp", "gallerydl"}
    /\ wpc[w] = "run"
    /\ wpc' = [wpc EXCEPT ![w] = "compose"]
    /\ lastUpdate' = SetLastUpdate(w, NoUpdate)
    /\ ret' = NoReturn
    /\ UNCHANGED <<calls, cancelled, downloader, cleanupVars, depVars, storageVars, JobQueue, closed, ctxDone,
                   callerVars, cancellerVars, wjob, wctx, wstep, wres, werr, readerVars, poolVars, parseVars, fingerprintVars, media, proxyVars>>

\* YTdlp / GalleryDL: cmd.Wait() returns an error: the subprocess exited with a
\* non-zero code, or exec.CommandContext killed it because jobCtx is done
Process_WaitFail(w) ==
    /\ downloader \in {"ytdlp", "gallerydl"}
    /\ wpc[w] = "run"
    /\ werr' = [werr EXCEPT ![w] = IF wctx[w] = "live" THEN "exit status" ELSE "signal: killed"]
    /\ wpc' = [wpc EXCEPT ![w] = "failed"]
    /\ lastUpdate' = SetLastUpdate(w, NoUpdate)
    /\ ret' = NoReturn
    /\ UNCHANGED <<calls, cancelled, downloader, cleanupVars, depVars, storageVars, JobQueue, closed, ctxDone,
                   callerVars, cancellerVars, wjob, wctx, wstep, wres, readerVars, poolVars, parseVars, fingerprintVars, media, proxyVars>>

\* composePublications: n results were parsed from stdout; none is an error. Each
\* result names, by an absolute path, a file that the subprocess wrote
composePublications(w, n) ==
    /\ wpc[w] = "compose"
    /\ files' = files \cup {PublicationUUID(wjob[w], i) : i \in 1..n}
    /\ IF n = 0
       THEN /\ werr' = [werr EXCEPT ![w] = "compose publications"]
            /\ wpc' = [wpc EXCEPT ![w] = "failed"]
            /\ UNCHANGED <<wres, wstep>>
       ELSE /\ wres' = [wres EXCEPT ![w] = n]
            /\ wstep' = [wstep EXCEPT ![w] = 0]
            /\ wpc' = [wpc EXCEPT ![w] = "store"]
            /\ werr' = werr
    /\ ret' = NoReturn
    /\ UNCHANGED <<calls, cancelled, downloader, pastExpiry, sweeperVars, replacedJob, depVars,
                   storageVars, JobQueue, closed, ctxDone, callerVars, cancellerVars, wjob, wctx, readerVars, lastUpdate, poolVars, parseVars, fingerprintVars, media, proxyVars>>

\* storePublications: one storer.SetPublication of the loop; ErrJobNotFound ends it
storePublications(w) ==
    /\ wpc[w] = "store"
    /\ wstep[w] < wres[w]
    /\ IF jobs[wjob[w]] = NoJob
       THEN /\ werr' = [werr EXCEPT ![w] = "store publications"]
            /\ wpc' = [wpc EXCEPT ![w] = "failed"]
            /\ UNCHANGED <<publications, wstep>>
       ELSE /\ publications' = publications \cup {PublicationUUID(wjob[w], wstep[w] + 1)}
            /\ wstep' = [wstep EXCEPT ![w] = wstep[w] + 1]
            /\ UNCHANGED <<wpc, werr>>
    /\ ret' = NoReturn
    /\ UNCHANGED <<calls, cancelled, downloader, cleanupVars, depVars, jobs, cancelFuncs, JobQueue, closed, ctxDone,
                   callerVars, cancellerVars, wjob, wctx, wres, readerVars, lastUpdate, poolVars, parseVars, fingerprintVars, media, proxyVars>>

\* Process: storer.UpdateJobPublications(ctx, job.UUID, publications)
Process_UpdatePublications(w) ==
    /\ wpc[w] = "store"
    /\ wstep[w] = wres[w]
    /\ jobs' = UpdateJobPublications(jobs, wjob[w], wres[w])
    /\ wpc' = [wpc EXCEPT ![w] = "finish"]
    /\ ret' = NoReturn
    /\ UNCHANGED <<calls, cancelled, downloader, cleanupVars, depVars, publications, cancelFuncs, JobQueue, closed, ctxDone,
                   callerVars, cancellerVars, wjob, wctx, wstep, wres, werr, readerVars, lastUpdate, poolVars, parseVars, fingerprintVars, media, proxyVars>>

\* Process: storer.UpdateJobStatus(ctx, job.UUID, finished, fullProgress, ""), return nil
Process_Finish(w) ==
    /\ wpc[w] = "finish"
    /\ jobs' = UpdateJobStatus(jobs, wjob[w], JobStatusFinished, fullProgress, "")
    /\ wpc' = [wpc EXCEPT ![w] = "unregister"]
    /\ ret' = NoReturn
    /\ UNCHANGED <<calls, cancelled, downloader, cleanupVars, depVars, publications, cancelFuncs, JobQueue, closed, ctxDone,
                   callerVars, cancellerVars, wjob, wctx, wstep, wres, werr, readerVars, lastUpdate, poolVars, parseVars, fingerprintVars, media, proxyVars>>

Process(w) ==
    \/ Process_Start(w)
    \/ mock_Tick(w)
    \/ mock_CtxDone(w)
    \/ mock_Finish(w)
    \/ \E p \in ProgressValues : handleProgress(w, p)
    \/ handleProgress_RateLimitOver(w)
    \/ Process_WaitOK(w)
    \/ Process_WaitFail(w)
    \/ \E n \in 0..MaxResults : composePublications(w, n)
    \/ storePublications(w)
    \/ Process_UpdatePublications(w)
    \/ Process_Finish(w)

worker(w) ==
    \/ worker_Receive(w)
    \/ worker_CtxDone(w)
    \/ processJob_Register(w)
    \/ Process(w)
    \/ processJob_Error(w)
    \/ processJob_Return(w)

(* ---- internal/storage: CancelJob ---------------------------------------- *)

\* CancelJob's test of the job it read: finished, error and cancelled are not cancellable
NotCancellable(job) ==
    \/ job.status = JobStatusFinished
    \/ job.status = JobStatusError
    \/ job.status = JobStatusCancelled

\* CancelJob: read stg.jobs[jobID] under mu; ErrJobNotFound, ErrJobCancelled or go on
CancelJob_Read(c, id) ==
    /\ cpc[c] = "idle"
    /\ calls.cancel < MaxCancels
    /\ calls' = [calls EXCEPT !.cancel = calls.cancel + 1]
    /\ IF jobs[id] = NoJob
       THEN /\ ret' = Return("CancelJob", id, "job_not_found")
            /\ UNCHANGED <<cpc, cid>>
       ELSE IF NotCancellable(jobs[id])
       THEN /\ ret' = Return("CancelJob", id, "not_cancellable")
            /\ UNCHANGED <<cpc, cid>>
       ELSE /\ cpc' = [cpc EXCEPT ![c] = "getfunc"]
            /\ cid' = [cid EXCEPT ![c] = id]
            /\ ret' = NoReturn
    /\ UNCHANGED <<cancelled, downloader, cleanupVars, depVars, storageVars, JobQueue, closed, ctxDone, callerVars, cfn,
                   workerVars, readerVars, poolVars, parseVars, fingerprintVars, media, proxyVars>>

\* the lookup without its nil test: a job nobody executes is marked cancelled
CancelJob_GetFunc_NoNilCheck(c) ==
    /\ cpc[c] = "getfunc"
    /\ IF cancelFuncs[cid[c]] = NoWorker
       THEN /\ cfn' = cfn
            /\ cpc' = [cpc EXCEPT ![c] = "update"]
       ELSE /\ cfn' = [cfn EXCEPT ![c] = [w |-> cancelFuncs[cid[c]], valid |-> TRUE]]
            /\ cpc' = [cpc EXCEPT ![c] = "call"]
    /\ ret' = NoReturn
    /\ UNCHANGED <<calls, cancelled, downloader, cleanupVars, depVars, storageVars, JobQueue, closed, ctxDone, callerVars,
                   cid, workerVars, readerVars, poolVars, parseVars, fingerprintVars, media, proxyVars>>

\* CancelJob: read stg.cancelFuncs[jobID] under cancelMu; nil is ErrJobCancelled
CancelJob_GetFunc(c) ==
    /\ cpc[c] = "getfunc"
    /\ IF cancelFuncs[cid[c]] = NoWorker
       THEN /\ ret' = Return("CancelJob", cid[c], "not_cancellable")
            /\ cpc' = [cpc EXCEPT ![c] = "idle"]
            /\ cid' = [cid EXCEPT ![c] = NoID]
            /\ cfn' = cfn
       ELSE /\ cfn' = [cfn EXCEPT ![c] = [w |-> cancelFuncs[cid[c]], valid |-> TRUE]]
            /\ cpc' = [cpc EXCEPT ![c] = "call"]
            /\ cid' = cid
            /\ ret' = NoReturn
    /\ UNCHANGED <<calls, cancelled, downloader, cleanupVars, depVars, storageVars, JobQueue, closed, ctxDone, callerVars,
                   workerVars, readerVars, poolVars, parseVars, fingerprintVars, media, proxyVars>>

\* CancelJob: cancelFunc()
CancelJob_Call(c) ==
    /\ cpc[c] = "call"
    /\ wctx' = [w \in WorkerIDs |->
                  IF cfn[c].valid /\ cfn[c].w = w /\ wctx[w] = "live"
                  THEN "canceled" ELSE wctx[w]]
    /\ cpc' = [cpc EXCEPT ![c] = "update"]
    /\ ret' = NoReturn
    /\ UNCHANGED <<calls, cancelled, downloader, cleanupVars, depVars, storageVars, JobQueue, closed, ctxDone, callerVars,
                   cid, cfn, wpc, wjob, wstep, wres, werr, readerVars, lastUpdate, poolVars, parseVars, fingerprintVars, media, proxyVars>>

\* CancelJob: UpdateJobStatus(jobID, cancelled, 0, "job cancelled by user"); return nil
CancelJob_Update(c) ==
    /\ cpc[c] = "update"
    /\ jobs' = UpdateJobStatus(jobs, cid[c], JobStatusCancelled, 0, "job cancelled by user")
    /\ ret' = Return("CancelJob", cid[c], "ok")
    /\ cancelled' = IF cfn[c].valid THEN cancelled \cup {cfn[c].w} ELSE cancelled
    /\ cpc' = [cpc EXCEPT ![c] = "idle"]
    /\ cid' = [cid EXCEPT ![c] = NoID]
    /\ cfn' = [cfn EXCEPT ![c] = NoCancelFunc]
    /\ UNCHANGED <<calls, downloader, cleanupVars, depVars, publications, cancelFuncs, JobQueue, closed, ctxDone,
                   callerVars, workerVars, readerVars, poolVars, parseVars, fingerprintVars, media, proxyVars>>

CancelJob(c) ==
    \/ \E id \in IDs : CancelJob_Read(c, id)
    \/ CancelJob_GetFunc(c)
    \/ CancelJob_Call(c)
    \/ CancelJob_Update(c)

(* ---- httprouter: GetJob, GetJobs ------------------------------------------ *)

\* Router.GetJob: storer.GetJobByID; the handler then encodes the Job it got, or
\* answers 204 when there is none
Router_GetJob(id) ==
    /\ got' = IF jobs[id] = NoJob THEN NoGot ELSE GetJobByID(jobs, id)
    /\ ret' = NoReturn
    /\ UNCHANGED <<serviceVarsButRet, ctxDone, cleanupVars, depVars, poolVars, parseVars, fingerprintVars, media, proxyVars>>

\* Router.GetJobs: storer.GetJobs returns a copy of every job; the handler encodes
\* them one after the other, got being the one it is at
Router_GetJobs ==
    /\ IF \A id \in IDs : jobs[id] = NoJob
       THEN got' = NoGot
       ELSE \E id \in IDs : /\ jobs[id] # NoJob
                             /\ got' = GetJobByID(jobs, id)
    /\ ret' = NoReturn
    /\ UNCHANGED <<serviceVarsButRet, ctxDone, cleanupVars, depVars, poolVars, parseVars, fingerprintVars, media, proxyVars>>

(* ---- internal/storage: CleanupExpiredJobs -------------------------------- *)

\* time passes: the ExpiresAt of a job in storage is now before time.Now()
Expire(id) ==
    /\ jobs[id] # NoJob
    /\ id \notin pastExpiry
    /\ pastExpiry' = pastExpiry \cup {id}
    /\ ret' = NoReturn
    /\ UNCHANGED <<serviceVarsButRet, ctxDone, files, sweeperVars, replacedJob, depVars, readerVars, poolVars, parseVars, fingerprintVars, media, proxyVars>>

\* getExpiredJobs: the jobs of stg.jobs with ExpiresAt.Before(now)
getExpiredJobs == {id \in IDs : jobs[id] # NoJob /\ id \in pastExpiry}

\* the orders in which a range over a map may yield the elements of S
RangeOrders(S) ==
    {q \in [1..Cardinality(S) -> S] : \A i, j \in 1..Cardinality(S) : i # j => q[i] # q[j]}

\* CleanupExpiredJobs: case <-ticker.C; performCleanup collects the expired jobs
\* under mu and goes on to clean them up one by one
performCleanup ==
    /\ sweepPC = "idle"
    /\ \E q \in RangeOrders(getExpiredJobs) : expiredJobs' = q
    /\ sweepPC' = IF getExpiredJobs = {} THEN "idle" ELSE "remove"
    /\ cleanupIdx' = 0
    /\ ret' = NoReturn
    /\ UNCHANGED <<serviceVarsButRet, ctxDone, pastExpiry, files, replacedJob, depVars, readerVars, poolVars, parseVars, fingerprintVars, media, proxyVars>>

\* CleanupExpiredJobs: case <-ctx.Done(): return
CleanupExpiredJobs_CtxDone ==
    /\ sweepPC = "idle"
    /\ ctxDone
    /\ sweepPC' = "exited"
    /\ ret' = NoReturn
    /\ UNCHANGED <<serviceVarsButRet, ctxDone, pastExpiry, files, expiredJobs, cleanupIdx,
                   replacedJob, depVars, readerVars, poolVars, parseVars, fingerprintVars, media, proxyVars>>

\* cleanupJob's argument: the *entity.Job collected, which is the entry of stg.jobs
\* unless a SetJob has replaced that entry since
cleanupJobArg ==
    IF replacedJob[Head(expiredJobs)] # NoJob
    THEN replacedJob[Head(expiredJobs)]
    ELSE jobs[Head(expiredJobs)]

\* cleanupJob: one os.Remove(pub.Filename) of the loop over job.Publications; a file
\* that does not exist is logged
cleanupJob_Remove ==
    /\ sweepPC = "remove"
    /\ cleanupIdx < cleanupJobArg.pubs
    /\ files' = files \ {PublicationUUID(Head(expiredJobs), cleanupIdx + 1)}
    /\ cleanupIdx' = cleanupIdx + 1
    /\ ret' = NoReturn
    /\ UNCHANGED <<serviceVarsButRet, ctxDone, pastExpiry, sweepPC, expiredJobs, replacedJob,
                   depVars, readerVars, poolVars, parseVars, fingerprintVars, media, proxyVars>>

\* cleanupJob, under mu: delete(stg.publications, pub.UUID) for every publication of
\* the job, delete(stg.jobs, job.UUID); performCleanup goes on with the next job
cleanupJob_Delete ==
    /\ sweepPC = "remove"
    /\ cleanupIdx >= cleanupJobArg.pubs
    /\ publications' = publications \
                          {PublicationUUID(Head(expiredJobs), i) : i \in 1..cleanupJobArg.pubs}
    /\ jobs' = [jobs EXCEPT ![Head(expiredJobs)] = NoJob]
    /\ pastExpiry' = pastExpiry \ {Head(expiredJobs)}
    /\ replacedJob' = [replacedJob EXCEPT ![Head(expiredJobs)] = NoJob]
    /\ expiredJobs' = Tail(expiredJobs)
    /\ cleanupIdx' = 0
    /\ sweepPC' = IF Tail(expiredJobs) = <<>> THEN "idle" ELSE "remove"
    /\ ret' = NoReturn
    /\ UNCHANGED <<downloader, cancelFuncs, JobQueue, closed, callerVars, cancellerVars,
                   workerVars, calls, cancelled, ctxDone, files, depVars, readerVars, poolVars, parseVars, fingerprintVars, media, proxyVars>>

CleanupExpiredJobs ==
    \/ performCleanup
    \/ CleanupExpiredJobs_CtxDone
    \/ cleanupJob_Remove
    \/ cleanupJob_Delete

(* ---- internal/depmanager -------------------------------------------------- *)

\* a new release of kind k is published: the server serves it and lists its hash
Release(k) ==
    /\ remote[k] = "aa"
    /\ remote' = [remote EXCEPT ![k] = "bb"]
    /\ dret' = NoDepReturn
    /\ UNCHANGED <<jobVars, depConfigVars, depDiskVars, depManagerVars, tickPending,
                   depProcVars, failedUpdates, readerVars, poolVars, parseVars, fingerprintVars, media, proxyVars>>

\* the fallback left out: no URL unless the platform's own URL is configured
selectURL_NoFallback(linuxARM64, linuxAMD64) ==
    CASE platform = "linux/arm64" /\ linuxARM64 -> "linux/arm64"
      [] platform = "linux/amd64" /\ linuxAMD64 -> "linux/amd64"
      [] OTHER -> NoURL

\* selectURL: the platform's URL if it is non-empty, else the linux/amd64 URL,
\* which may be empty; the arguments tell which of the two are non-empty
selectURL(linuxARM64, linuxAMD64) ==
    CASE platform = "linux/arm64" /\ linuxARM64 -> "linux/arm64"
      [] platform = "linux/amd64" /\ linuxAMD64 -> "linux/amd64"
      [] OTHER -> IF linuxAMD64 THEN "linux/amd64" ELSE NoURL

getBinaryURL(name) == selectURL(urlConfigured["linux/arm64"], urlConfigured["linux/amd64"])

\* downloadDependency's needsExtraction: the URLs of deno end in .zip
needsExtraction(name) == name = BinaryDeno

\* isBinaryExists: os.Stat succeeds and the size is not zero
isBinaryExists(name) == binFile[name] # NoFile

\* setBinaryPath: m.binPaths[name] = m.GetBinaryPath(name)
setBinaryPath(bp, name) == [bp EXCEPT ![name] = GetBinaryPath(name)]

\* GetInstalledPath: m.binPaths[name], empty if the name was never recorded
GetInstalledPath(name) == binPaths[name]

\* the comparison without its !hasOld: a kind with no saved hash is never updated
findUpdates_OnlyChanged ==
    {k \in Kinds : shaSums[k] # NoHash /\ savedSums[k] # NoHash /\ shaSums[k] # savedSums[k]}

\* findUpdates: the kinds whose fetched hash exists and differs from the saved one,
\* or has no saved one
findUpdates ==
    {k \in Kinds : shaSums[k] # NoHash /\ (savedSums[k] = NoHash \/ shaSums[k] # savedSums[k])}

\* where a goroutine goes on when its FetchSHASums has returned err: InstallAll
\* returns nil and Start spawns the checker; checkAndUpdate returns
AfterFetchError(p) == IF p = Starter THEN "spawn" ELSE "select"

\* where a goroutine goes on when downloadAndInstall has returned: InstallAll
\* returns the error, which MustInstallAll turns into a panic, or goes on with the
\* next binary; checkAndUpdate goes on with the next update, then saves the sums
AfterInstall(p, ok, rest) ==
    IF p = Starter
    THEN IF ok THEN "install" ELSE "panicked"
    ELSE IF rest = {} THEN "save" ELSE "updates"

\* downloadAndInstall returns res for the kind it installs
downloadAndInstall_Return(p, res) ==
    /\ dret' = Return("downloadAndInstall", dkind[p], res)
    /\ dpc' = [dpc EXCEPT ![p] = AfterInstall(p, res = "ok", updates)]
    /\ dstep' = [dstep EXCEPT ![p] = IF p = Starter /\ res = "ok" THEN dstep[p] + 1 ELSE dstep[p]]
    /\ dkind' = [dkind EXCEPT ![p] = NoKind]
    /\ dtmp' = [dtmp EXCEPT ![p] = NoFile]
    /\ failedUpdates' = IF p = Starter THEN failedUpdates
                        ELSE IF res = "ok" THEN failedUpdates \ {dkind[p]}
                        ELSE failedUpdates \cup {dkind[p]}

\* loadSavedSums: json.Unmarshal of the sums file into m.savedSums; a file that is
\* absent or is no JSON document is an error, which leaves m.savedSums empty
loadSavedSums == IF sumsFile = TornSums THEN savedSums ELSE sumsFile

\* Start, InstallAll: os.MkdirAll, loadSavedSums
InstallAll_LoadSavedSums ==
    /\ dpc[Starter] = "new"
    /\ savedSums' = loadSavedSums
    /\ dpc' = [dpc EXCEPT ![Starter] = "install"]
    /\ dstep' = [dstep EXCEPT ![Starter] = 1]
    /\ dret' = NoDepReturn
    /\ UNCHANGED <<jobVars, depConfigVars, remote, depDiskVars, shaSums, binPaths, isUpdating,
                   tickPending, dkind, dtmp, updates, failedUpdates, readerVars, poolVars, parseVars, fingerprintVars, media, proxyVars>>

\* InstallAll: one binary of the loop: record it if it exists, else install it;
\* after the last one go on to fetch the sums
InstallAll_Binary ==
    /\ dpc[Starter] = "install"
    /\ IF dstep[Starter] > Len(InstallOrder)
       THEN /\ dpc' = [dpc EXCEPT ![Starter] = "fetch"]
            /\ dstep' = [dstep EXCEPT ![Starter] = 1]
            /\ UNCHANGED <<binPaths, dkind>>
       ELSE IF isBinaryExists(InstallOrder[dstep[Starter]])
       THEN /\ binPaths' = setBinaryPath(binPaths, InstallOrder[dstep[Starter]])
            /\ dstep' = [dstep EXCEPT ![Starter] = dstep[Starter] + 1]
            /\ UNCHANGED <<dpc, dkind>>
       ELSE /\ dkind' = [dkind EXCEPT ![Starter] = InstallOrder[dstep[Starter]]]
            /\ dpc' = [dpc EXCEPT ![Starter] = "selectURL"]
            /\ UNCHANGED <<binPaths, dstep>>
    /\ dret' = NoDepReturn
    /\ UNCHANGED <<jobVars, depConfigVars, remote, depDiskVars, shaSums, savedSums, isUpdating,
                   tickPending, dtmp, updates, failedUpdates, readerVars, poolVars, parseVars, fingerprintVars, media, proxyVars>>

\* downloadAndInstall: getBinaryURL; an empty URL is the error "no download URL configured"
downloadAndInstall_GetURL(p) ==
    /\ dpc[p] = "selectURL"
    /\ IF getBinaryURL(dkind[p]) = NoURL
       THEN downloadAndInstall_Return(p, "no download URL configured")
       ELSE /\ dpc' = [dpc EXCEPT ![p] = "download"]
            /\ dret' = NoDepReturn
            /\ UNCHANGED <<dkind, dstep, dtmp, failedUpdates>>
    /\ UNCHANGED <<jobVars, depConfigVars, remote, depDiskVars, depManagerVars, tickPending,
                   updates, readerVars, poolVars, parseVars, fingerprintVars, media, proxyVars>>

\* what the GET of the binary and the copy of its body to the temporary file may end in
DownloadOutcomes == {"ok", "unexpected status", "write file"}

\* downloadDependency: client.Do, os.CreateTemp, io.Copy to the temporary file
downloadDependency_Get(p, outcome) ==
    /\ dpc[p] = "download"
    /\ IF outcome = "ok"
       THEN /\ dtmp' = [dtmp EXCEPT ![p] = remote[dkind[p]]]
            /\ dpc' = [dpc EXCEPT ![p] = IF needsExtraction(dkind[p]) THEN "extract" ELSE "rename"]
            /\ dret' = NoDepReturn
            /\ UNCHANGED <<dkind, dstep, failedUpdates>>
       ELSE downloadAndInstall_Return(p, outcome)
    /\ UNCHANGED <<jobVars, depConfigVars, remote, depDiskVars, depManagerVars, tickPending,
                   updates, readerVars, poolVars, parseVars, fingerprintVars, media, proxyVars>>

\* what extractFromZip may end in: nil, an error before the destination is opened
\* (open zip, no target files found), an error of the io.Copy to the destination
ExtractOutcomes == {"ok", "open zip", "extract file"}

\* extractFiles: the target is written in place: os.OpenFile(destPath, O_TRUNC), io.Copy
extractFiles(p, outcome) ==
    /\ dpc[p] = "extract"
    /\ binFile' = CASE outcome = "ok" -> [binFile EXCEPT ![dkind[p]] = dtmp[p]]
                    [] outcome = "open zip" -> binFile
                    [] outcome = "extract file" -> [binFile EXCEPT ![dkind[p]] = Truncated]
    /\ IF outcome = "ok"
       THEN /\ dpc' = [dpc EXCEPT ![p] = "chmod"]
            /\ dret' = NoDepReturn
            /\ UNCHANGED <<dkind, dstep, dtmp, failedUpdates>>
       ELSE downloadAndInstall_Return(p, outcome)
    /\ UNCHANGED <<jobVars, depConfigVars, remote, sumsFile, depManagerVars, tickPending,
                   updates, readerVars, poolVars, parseVars, fingerprintVars, media, proxyVars>>

\* downloadDependency: os.Rename(tmpPath, binPath)
downloadDependency_Rename(p, ok) ==
    /\ dpc[p] = "rename"
    /\ binFile' = IF ok THEN [binFile EXCEPT ![dkind[p]] = dtmp[p]] ELSE binFile
    /\ IF ok
       THEN /\ dpc' = [dpc EXCEPT ![p] = "chmod"]
            /\ dret' = NoDepReturn
            /\ UNCHANGED <<dkind, dstep, dtmp, failedUpdates>>
       ELSE downloadAndInstall_Return(p, "rename")
    /\ UNCHANGED <<jobVars, depConfigVars, remote, sumsFile, depManagerVars, tickPending,
                   updates, readerVars, poolVars, parseVars, fingerprintVars, media, proxyVars>>

\* downloadAndInstall: makeExecutable, setBinaryPath(BinaryName(path)) for the
\* installed path, return nil
downloadAndInstall_Finish(p) ==
    /\ dpc[p] = "chmod"
    /\ binPaths' = setBinaryPath(binPaths, GetBinaryPath(dkind[p]))
    /\ downloadAndInstall_Return(p, "ok")
    /\ UNCHANGED <<jobVars, depConfigVars, remote, depDiskVars, shaSums, savedSums, isUpdating,
                   tickPending, updates, readerVars, poolVars, parseVars, fingerprintVars, media, proxyVars>>

downloadAndInstall(p) ==
    \/ downloadAndInstall_GetURL(p)
    \/ \E outcome \in DownloadOutcomes : downloadDependency_Get(p, outcome)
    \/ \E outcome \in ExtractOutcomes : extractFiles(p, outcome)
    \/ \E ok \in BOOLEAN : downloadDependency_Rename(p, ok)
    \/ downloadAndInstall_Finish(p)

\* FetchSHASums: the GET of one sums URL and ParseSHASums of its body; an error
\* returns, leaving in shaSums what the URLs before it gave
FetchSHASums(p, ok) ==
    /\ dpc[p] = "fetch"
    /\ IF ok
       THEN /\ shaSums' = [shaSums EXCEPT ![SumsOrder[dstep[p]]] = remote[SumsOrder[dstep[p]]]]
            /\ IF dstep[p] < Len(SumsOrder)
               THEN /\ dstep' = [dstep EXCEPT ![p] = dstep[p] + 1]
                    /\ dpc' = dpc
               ELSE /\ dstep' = [dstep EXCEPT ![p] = 0]
                    /\ dpc' = [dpc EXCEPT ![p] = IF p = Starter THEN "save" ELSE "find"]
            /\ isUpdating' = isUpdating
            /\ dret' = NoDepReturn
       ELSE /\ shaSums' = shaSums
            /\ dstep' = [dstep EXCEPT ![p] = 0]
            /\ dpc' = [dpc EXCEPT ![p] = AfterFetchError(p)]
            /\ isUpdating' = IF p = Checker THEN FALSE ELSE isUpdating
            /\ dret' = Return("FetchSHASums", NoKind, "fetch SHA sums")
    /\ UNCHANGED <<jobVars, depConfigVars, remote, depDiskVars, savedSums, binPaths,
                   tickPending, dkind, dtmp, updates, failedUpdates, readerVars, poolVars, parseVars, fingerprintVars, media, proxyVars>>

\* what os.WriteFile of the sums file may end in: nil, an error of its OpenFile
\* (the file is as it was), an error of its Write after O_TRUNC has emptied the file
SaveOutcomes == {"ok", "open", "write"}

\* saveSums: os.WriteFile of shaSums to the sums file itself, then savedSums becomes
\* a copy of shaSums; a write error returns before that. The caller only logs the error
saveSums(p, outcome) ==
    /\ dpc[p] = "save"
    /\ sumsFile' = CASE outcome = "ok" -> shaSums
                     [] outcome = "open" -> sumsFile
                     [] outcome = "write" -> TornSums
    /\ savedSums' = IF outcome = "ok" THEN shaSums ELSE savedSums
    /\ dpc' = [dpc EXCEPT ![p] = IF p = Starter THEN "spawn" ELSE "select"]
    /\ isUpdating' = IF p = Checker THEN FALSE ELSE isUpdating
    /\ dret' = Return("saveSums", NoKind,
                       IF outcome = "ok" THEN "ok" ELSE "write checksums file")
    /\ UNCHANGED <<jobVars, depConfigVars, remote, binFile, shaSums, binPaths, tickPending,
                   dkind, dstep, dtmp, updates, failedUpdates, readerVars, poolVars, parseVars, fingerprintVars, media, proxyVars>>

\* Start: go m.StartUpdateChecker(ctx), with UpdateInterval > 0: the ticker is made
Start_StartUpdateChecker ==
    /\ dpc[Starter] = "spawn"
    /\ dpc' = [dpc EXCEPT ![Starter] = "started", ![Checker] = "select"]
    /\ dret' = NoDepReturn
    /\ UNCHANGED <<jobVars, depConfigVars, remote, depDiskVars, depManagerVars, tickPending,
                   dkind, dstep, dtmp, updates, failedUpdates, readerVars, poolVars, parseVars, fingerprintVars, media, proxyVars>>

\* the ticker of the update checker fires: ticker.C holds one tick at most, a tick
\* that finds it full is dropped
Ticker_Tick ==
    /\ dpc[Checker] \notin {"off", "exited"}
    /\ tickPending' = TRUE
    /\ dret' = NoDepReturn
    /\ UNCHANGED <<jobVars, depConfigVars, remote, depDiskVars, depManagerVars, depProcVars,
                   failedUpdates, readerVars, poolVars, parseVars, fingerprintVars, media, proxyVars>>

\* the loop with go m.checkAndUpdate(ctx): a tick is received whatever the previous
\* call is doing, and checkAndUpdate returns at once when isUpdating is set
StartUpdateChecker_Tick_Go ==
    /\ dpc[Checker] \notin {"off", "exited"}
    /\ tickPending
    /\ tickPending' = FALSE
    /\ IF isUpdating
       THEN UNCHANGED <<isUpdating, dpc, dstep>>
       ELSE /\ isUpdating' = TRUE
            /\ dpc' = [dpc EXCEPT ![Checker] = "fetch"]
            /\ dstep' = [dstep EXCEPT ![Checker] = 1]
    /\ dret' = NoDepReturn
    /\ UNCHANGED <<jobVars, depConfigVars, remote, depDiskVars, shaSums, savedSums, binPaths,
                   dkind, dtmp, updates, failedUpdates, readerVars, poolVars, parseVars, fingerprintVars, media, proxyVars>>

\* StartUpdateChecker: case <-ticker.C: m.checkAndUpdate(ctx), which returns at once
\* when isUpdating is set and else sets it and goes on to fetch the sums
StartUpdateChecker_Tick ==
    /\ dpc[Checker] = "select"
    /\ tickPending
    /\ tickPending' = FALSE
    /\ IF isUpdating
       THEN UNCHANGED <<isUpdating, dpc, dstep>>
       ELSE /\ isUpdating' = TRUE
            /\ dpc' = [dpc EXCEPT ![Checker] = "fetch"]
            /\ dstep' = [dstep EXCEPT ![Checker] = 1]
    /\ dret' = NoDepReturn
    /\ UNCHANGED <<jobVars, depConfigVars, remote, depDiskVars, shaSums, savedSums, binPaths,
                   dkind, dtmp, updates, failedUpdates, readerVars, poolVars, parseVars, fingerprintVars, media, proxyVars>>

\* StartUpdateChecker: case <-ctx.Done(): return
StartUpdateChecker_CtxDone ==
    /\ dpc[Checker] = "select"
    /\ ctxDone
    /\ dpc' = [dpc EXCEPT ![Checker] = "exited"]
    /\ dret' = NoDepReturn
    /\ UNCHANGED <<jobVars, depConfigVars, remote, depDiskVars, depManagerVars, tickPending,
                   dkind, dstep, dtmp, updates, failedUpdates, readerVars, poolVars, parseVars, fingerprintVars, media, proxyVars>>

\* checkAndUpdate: findUpdates; with no update it returns
checkAndUpdate_FindUpdates ==
    /\ dpc[Checker] = "find"
    /\ updates' = findUpdates
    /\ IF findUpdates = {}
       THEN /\ dpc' = [dpc EXCEPT ![Checker] = "select"]
            /\ isUpdating' = FALSE
            /\ dret' = Return("checkAndUpdate", NoKind, "no updates available")
       ELSE /\ dpc' = [dpc EXCEPT ![Checker] = "updates"]
            /\ isUpdating' = isUpdating
            /\ dret' = NoDepReturn
    /\ UNCHANGED <<jobVars, depConfigVars, remote, depDiskVars, shaSums, savedSums, binPaths,
                   tickPending, dkind, dstep, dtmp, failedUpdates, readerVars, poolVars, parseVars, fingerprintVars, media, proxyVars>>

\* checkAndUpdate: the loop over updates calls downloadAndInstall for the next one
checkAndUpdate_Install(k) ==
    /\ dpc[Checker] = "updates"
    /\ k \in updates
    /\ updates' = updates \ {k}
    /\ dkind' = [dkind EXCEPT ![Checker] = k]
    /\ dpc' = [dpc EXCEPT ![Checker] = "selectURL"]
    /\ dret' = NoDepReturn
    /\ UNCHANGED <<jobVars, depConfigVars, remote, depDiskVars, depManagerVars, tickPending,
                   dstep, dtmp, failedUpdates, readerVars, poolVars, parseVars, fingerprintVars, media, proxyVars>>

\* Manager.Start with UseSystemBinaries unset
Start ==
    \/ InstallAll_LoadSavedSums
    \/ InstallAll_Binary
    \/ downloadAndInstall(Starter)
    \/ \E ok \in BOOLEAN : FetchSHASums(Starter, ok)
    \/ \E outcome \in SaveOutcomes : saveSums(Starter, outcome)
    \/ Start_StartUpdateChecker

StartUpdateChecker ==
    \/ Ticker_Tick
    \/ StartUpdateChecker_Tick
    \/ StartUpdateChecker_CtxDone
    \/ \E ok \in BOOLEAN : FetchSHASums(Checker, ok)
    \/ checkAndUpdate_FindUpdates
    \/ \E k \in Kinds : checkAndUpdate_Install(k)
    \/ downloadAndInstall(Checker)
    \/ \E outcome \in SaveOutcomes : saveSums(Checker, outcome)

(* ---- internal/proxymgr ---------------------------------------------------- *)

\* time passes; what a call returned belongs to the time of the call
Tick ==
    /\ now < MaxTime
    /\ now' = now + 1
    /\ selected' = NoSelection
    /\ UNCHANGED <<proxies, jobVars, depVars, readerVars, poolVars, parseVars,
                   fingerprintVars, media>>

\* getAvailableProxies without the test of the state: every proxy is a candidate
getAvailableProxies_All == order

\* getAvailableProxies: the proxies of m.order that are available, or failed with
\* now.After(info.BackoffUntil)
getAvailableProxies ==
    LET Available(proxyURL) ==
            \/ proxies[proxyURL].State = "ProxyStateAvailable"
            \/ /\ proxies[proxyURL].State = "ProxyStateFailed"
               /\ now > proxies[proxyURL].BackoffUntil
    IN  SelectSeq(order, Available)

\* GetRandomProxy: "" when none is available, else available[rand.IntN(len(available))]
GetRandomProxy ==
    /\ LET available == getAvailableProxies
       IN  IF Len(available) = 0
           THEN selected' = [op |-> "GetRandomProxy", arg |-> "", proxy |-> "", ok |-> FALSE]
           ELSE \E n \in 1..Len(available) :
                    selected' = [op |-> "GetRandomProxy", arg |-> "",
                                 proxy |-> available[n], ok |-> TRUE]
    /\ UNCHANGED <<proxies, now, jobVars, depVars, readerVars, poolVars, parseVars,
                   fingerprintVars, media>>

\* GetProxy: ("", false) for an unknown proxy and for a failed one with
\* time.Now().Before(info.BackoffUntil), else (proxyURL, true)
GetProxy(proxyURL) ==
    /\ IF proxyURL \notin DOMAIN proxies
       THEN selected' = [op |-> "GetProxy", arg |-> proxyURL, proxy |-> "", ok |-> FALSE]
       ELSE IF /\ proxies[proxyURL].State = "ProxyStateFailed"
               /\ now < proxies[proxyURL].BackoffUntil
       THEN selected' = [op |-> "GetProxy", arg |-> proxyURL, proxy |-> "", ok |-> FALSE]
       ELSE selected' = [op |-> "GetProxy", arg |-> proxyURL, proxy |-> proxyURL, ok |-> TRUE]
    /\ UNCHANGED <<proxies, now, jobVars, depVars, readerVars, poolVars, parseVars,
                   fingerprintVars, media>>

\* MarkFailed: FailureCount++; from MaxFailures failures on the proxy is failed and
\* BackoffUntil is now plus FailureBackoff * 1<<(FailureCount - MaxFailures), at
\* most maxBackoff. HealthCheck calls it when the dial fails
MarkFailed(proxyURL) ==
    /\ IF proxyURL \notin DOMAIN proxies
       THEN proxies' = proxies
       ELSE LET FailureCount == proxies[proxyURL].FailureCount + 1
                backoff == FailureBackoff * 2 ^ (FailureCount - MaxFailures)
            IN  /\ FailureCount <= MaxFailureCount
                /\ IF FailureCount >= MaxFailures
                   THEN proxies' = [proxies EXCEPT ![proxyURL] =
                            [State |-> "ProxyStateFailed", FailureCount |-> FailureCount,
                             BackoffUntil |->
                                now + IF backoff > maxBackoff THEN maxBackoff ELSE backoff]]
                   ELSE proxies' = [proxies EXCEPT ![proxyURL].FailureCount = FailureCount]
    /\ selected' = NoSelection
    /\ UNCHANGED <<now, jobVars, depVars, readerVars, poolVars, parseVars,
                   fingerprintVars, media>>

\* MarkSuccess and RestoreProxy: available, no failures, BackoffUntil the zero time.
\* HealthCheck calls MarkSuccess when the dial succeeds
MarkSuccess(proxyURL) ==
    /\ IF proxyURL \notin DOMAIN proxies
       THEN proxies' = proxies
       ELSE proxies' = [proxies EXCEPT ![proxyURL] =
                [State |-> "ProxyStateAvailable", FailureCount |-> 0,
                 BackoffUntil |-> ZeroTime]]
    /\ selected' = NoSelection
    /\ UNCHANGED <<now, jobVars, depVars, readerVars, poolVars, parseVars,
                   fingerprintVars, media>>

RestoreProxy(proxyURL) == MarkSuccess(proxyURL)

ProxyNext ==
    \/ Tick
    \/ GetRandomProxy
    \/ \E proxyURL \in ProxyURLs :
          \/ GetProxy(proxyURL)
          \/ MarkFailed(proxyURL)
          \/ MarkSuccess(proxyURL)
          \/ RestoreProxy(proxyURL)

\* the proxy manager by itself, under any calls at any times
ProxySpec == Init /\ [][ProxyNext]_vars

(* ---- the system --------------------------------------------------------- *)

Next ==
    \/ \E e \in CallerIDs : Enqueue(e)
    \/ \E w \in WorkerIDs : worker(w)
    \/ \E w \in WorkerIDs : JobTimeout(w)
    \/ Shutdown
    \/ \E c \in CancellerIDs : CancelJob(c)

Spec == Init /\ [][Next]_vars

\* the steps a worker goroutine takes by itself once it can: receiving from the
\* queue and everything in processJob up to its return. The subprocess ends, by
\* itself or by the deadline of jobCtx; output lines need not come.
workerStep(w) ==
    \/ worker_Receive(w)
    \/ processJob_Register(w)
    \/ Process_Start(w)
    \/ mock_Tick(w)
    \/ mock_CtxDone(w)
    \/ mock_Finish(w)
    \/ Process_WaitOK(w)
    \/ Process_WaitFail(w)
    \/ \E n \in 0..MaxResults : composePublications(w, n)
    \/ storePublications(w)
    \/ Process_UpdatePublications(w)
    \/ Process_Finish(w)
    \/ processJob_Error(w)
    \/ processJob_Return(w)

\* the steps of an Enqueue call after its entry: none of them blocks
EnqueueStep(e) ==
    \/ Enqueue_Lookup(e)
    \/ Enqueue_SetJob(e)
    \/ Enqueue_Send(e)
    \/ Enqueue_Default(e)
    \/ Enqueue_QueueFull(e)

\* the job service and the cleanup loop while the context given to Start is not
\* cancelled; the context of a caller's request may be. cfg.Storage.TTL (168h) is
\* taken to outlast the time a job waits and runs (cfg.Job.Timeout, 5m): a job
\* expires only after it has reached a terminal status
LiveNext ==
    \/ \E e \in CallerIDs : \E id \in IDs : Enqueue_Closed(e, id)
    \/ \E e \in CallerIDs : EnqueueStep(e)
    \/ \E e \in CallerIDs : Enqueue_CtxDone(e)
    \/ \E w \in WorkerIDs : workerStep(w)
    \/ \E w \in WorkerIDs : \E p \in ProgressValues : handleProgress(w, p)
    \/ \E w \in WorkerIDs : handleProgress_RateLimitOver(w)
    \/ \E w \in WorkerIDs : JobTimeout(w)
    \/ \E id \in IDs : jobs[id].status \in TerminalStatuses /\ Expire(id)
    \/ performCleanup
    \/ cleanupJob_Remove
    \/ cleanupJob_Delete

\* every goroutine that can take a step of its own takes one eventually
LiveSpec ==
    /\ Init
    /\ [][LiveNext]_vars
    /\ \A w \in WorkerIDs : WF_vars(workerStep(w))
    /\ \A e \in CallerIDs : WF_vars(EnqueueStep(e))

\* the registry's cleanup loop next to the job service that main builds, with the
\* yt-dlp downloader
CleanupSpecInit ==
    /\ Init
    /\ downloader = "ytdlp"

CleanupNext ==
    \/ \E e \in CallerIDs : Enqueue(e)
    \/ \E w \in WorkerIDs :
          \/ worker_Receive(w)
          \/ worker_CtxDone(w)
          \/ processJob_Register(w)
          \/ Process_Start(w)
          \/ \E pr \in ProgressValues : handleProgress(w, pr)
          \/ handleProgress_RateLimitOver(w)
          \/ Process_WaitOK(w)
          \/ Process_WaitFail(w)
          \/ \E n \in 0..MaxResults : composePublications(w, n)
          \/ storePublications(w)
          \/ Process_UpdatePublications(w)
          \/ Process_Finish(w)
          \/ processJob_Error(w)
          \/ processJob_Return(w)
    \/ Shutdown
    \/ \E id \in IDs : Expire(id)
    \/ CleanupExpiredJobs

CleanupSpec == CleanupSpecInit /\ [][CleanupNext]_vars

\* the job service with the yt-dlp downloader, and the HTTP handlers that read jobs
ReaderNext ==
    \/ \E e \in CallerIDs : Enqueue(e)
    \/ \E w \in WorkerIDs :
          \/ worker_Receive(w)
          \/ processJob_Register(w)
          \/ Process_Start(w)
          \/ \E pr \in ProgressValues : handleProgress(w, pr)
          \/ handleProgress_RateLimitOver(w)
          \/ Process_WaitOK(w)
          \/ Process_WaitFail(w)
          \/ \E n \in 0..MaxResults : composePublications(w, n)
          \/ storePublications(w)
          \/ Process_UpdatePublications(w)
          \/ Process_Finish(w)
          \/ processJob_Error(w)
          \/ processJob_Return(w)
    \/ \E id \in IDs : Router_GetJob(id)
    \/ Router_GetJobs

ReaderSpec == CleanupSpecInit /\ [][ReaderNext]_vars

\* the cleanup loop and the job service when both jobs' urls lead to one media item:
\* one video under two urls, or under two presets that yield the same file
SharedMediaSpecInit ==
    /\ media = [id \in IDs |-> 1]
    /\ New
    /\ NoRequestInit
    /\ ParserInit
    /\ ReaderInit
    /\ PoolInit
    /\ ServiceInit
    /\ downloader = "ytdlp"
    /\ CleanupInit
    /\ DepInit
    /\ DepInstalled

SharedMediaSpec == SharedMediaSpecInit /\ [][CleanupNext]_vars

\* the job service with the yt-dlp downloader, two workers and a queue of two jobs
PoolSpecInit ==
    /\ ParserInit
    /\ NoRequestInit
    /\ OwnMediaInit
    /\ New
    /\ ReaderInit
    /\ LargePoolInit
    /\ ServiceInit
    /\ downloader = "ytdlp"
    /\ CleanupInit
    /\ DepInit
    /\ DepInstalled

PoolNext ==
    \/ \E e \in CallerIDs : Enqueue(e)
    \/ \E w \in WorkerIDs :
          \/ worker_Receive(w)
          \/ processJob_Register(w)
          \/ Process_Start(w)
          \/ \E pr \in ProgressValues : handleProgress(w, pr)
          \/ handleProgress_RateLimitOver(w)
          \/ Process_WaitOK(w)
          \/ Process_WaitFail(w)
          \/ \E n \in 0..MaxResults : composePublications(w, n)
          \/ storePublications(w)
          \/ Process_UpdatePublications(w)
          \/ Process_Finish(w)
          \/ processJob_Error(w)
          \/ processJob_Return(w)

PoolSpec == PoolSpecInit /\ [][PoolNext]_vars

\* ParseYtdlpStdout on any stdout of up to MaxLines lines
ParseSpecInit ==
    /\ stdout \in UNION {[1..n -> Lines] : n \in 0..MaxLines}
    /\ lineNo = 0
    /\ results = <<>>
    /\ NoRequestInit
    /\ OwnMediaInit
    /\ New
    /\ ReaderInit
    /\ PoolInit
    /\ ServiceInit
    /\ downloader = "ytdlp"
    /\ CleanupInit
    /\ DepInit
    /\ DepInstalled

ParseNext ==
    \/ ParseYtdlpStdout_Scan
    \/ ParseYtdlpStdout_Return

ParseSpec == ParseSpecInit /\ [][ParseNext]_vars


(* ---- pkg/urls, pkg/jobid: the id of a request ---------------------------- *)

\* the urls a caller passes to Enqueue
URLs ==
    {"https://e.x/v?id=1", " https://e.x/v?id=1 ", "HTTPS://e.x/v?id=1",
     "https://e.x/a b", "https://e.x/a%20b", "https://e.x/a%2520b", "https://e.x/v#", "https://e.x/v",
     "https://e.x/v#t", "https://e.x/%zz", " https://e.x/%zz", "e.x/v", ""}

Presets == {"mp4", "mp3", "best"}

\* net/url unescape(s, encodePath): the path a written path stands for
unescape(s) ==
    CASE s = "/a%20b" -> "/a b"
      [] s = "/a%2520b" -> "/a%20b"
      [] OTHER -> s

\* net/url escape(s, encodePath): a path written with percent-encoding
escape(s) ==
    CASE s = "/a b" -> "/a%20b"
      [] s = "/a%20b" -> "/a%2520b"
      [] OTHER -> s

\* url.Parse(rawURL): err, or the URL with a lower-case scheme, the path
\* unescaped, RawPath kept only where it is not the default encoding of Path
Parse(rawURL) ==
    LET Written(scheme, host, path, query, fragment) ==
            [err |-> FALSE, Scheme |-> scheme, Host |-> host, Path |-> unescape(path),
             RawPath |-> IF escape(unescape(path)) = path THEN "" ELSE path,
             RawQuery |-> query, Fragment |-> fragment]
    IN  CASE rawURL \in {"https://e.x/v?id=1", "HTTPS://e.x/v?id=1"} ->
                Written("https", "e.x", "/v", "id=1", "")
          [] rawURL = "https://e.x/a b" -> Written("https", "e.x", "/a b", "", "")
          [] rawURL = "https://e.x/a%20b" -> Written("https", "e.x", "/a%20b", "", "")
          [] rawURL = "https://e.x/a%2520b" -> Written("https", "e.x", "/a%2520b", "", "")
          [] rawURL \in {"https://e.x/v#", "https://e.x/v"} ->
                Written("https", "e.x", "/v", "", "")
          [] rawURL = "https://e.x/v#t" -> Written("https", "e.x", "/v", "", "t")
          [] rawURL = "e.x/v" -> Written("", "", "e.x/v", "", "")
          [] rawURL = "" -> Written("", "", "", "", "")
          [] OTHER -> [err |-> TRUE]

\* (*URL).String: scheme, host, EscapedPath, query and fragment reassembled
String(u) ==
    LET validEncoded == u.RawPath # "/a b"
        EscapedPath ==
            IF u.RawPath # "" /\ validEncoded /\ unescape(u.RawPath) = u.Path
            THEN u.RawPath
            ELSE escape(u.Path)
    IN  (IF u.Scheme # "" THEN u.Scheme \o ":" ELSE "")
        \o (IF u.Host # "" THEN "//" \o u.Host ELSE "")
        \o EscapedPath
        \o (IF u.RawQuery # "" THEN "?" \o u.RawQuery ELSE "")
        \o (IF u.Fragment # "" THEN "#" \o u.Fragment ELSE "")

\* a normaliser that decodes percent-encoding instead of re-serialising the URL
Normalize_Unescaped(raw) ==
    CASE TrimSpace(raw) = "https://e.x/a%2520b" -> "https://e.x/a%20b"
      [] TrimSpace(raw) = "https://e.x/a%20b" -> "https://e.x/a b"
      [] OTHER -> TrimSpace(raw)

Normalize(raw) ==
    LET trimmed == TrimSpace(raw)
        u == Parse(trimmed)
    IN  IF u.err THEN trimmed ELSE String(u)

Key(a, b) == a \o "|" \o b

\* uuid.NewSHA1(uuid.NameSpaceURL, Key(a, b)): one id per key
UUIDv5(a, b) == <<"NameSpaceURL", Key(a, b)>>

\* Enqueue: url = urls.Normalize(url)
Enqueue_Normalize ==
    /\ fingerprint.pc = "call"
    /\ fingerprint' = [fingerprint EXCEPT !.pc = "lookup", !.url = Normalize(request.url)]
    /\ UNCHANGED <<request, jobVars, depVars, readerVars, poolVars, parseVars, media, proxyVars>>

\* GetJobByURLAndPreset(ctx, url, preset): the id it looks up
GetJobByURLAndPreset_ID ==
    /\ fingerprint.pc = "lookup"
    /\ fingerprint' = [fingerprint EXCEPT
            !.pc = "new",
            !.lookupID = UUIDv5(Normalize(fingerprint.url), request.preset)]
    /\ UNCHANGED <<request, jobVars, depVars, readerVars, poolVars, parseVars, media, proxyVars>>

\* Enqueue: job.UUID = gen.UUIDv5(url, preset), the id SetJob stores the job under
Enqueue_UUID ==
    /\ fingerprint.pc = "new"
    /\ fingerprint' = [fingerprint EXCEPT
            !.pc = "stored", !.UUID = UUIDv5(fingerprint.url, request.preset)]
    /\ UNCHANGED <<request, jobVars, depVars, readerVars, poolVars, parseVars, media, proxyVars>>

\* one Enqueue of any request, up to the id of the new job
FingerprintSpecInit ==
    /\ request \in [url : URLs, preset : Presets]
    /\ fingerprint = [pc |-> "call", url |-> "", lookupID |-> NoUUID, UUID |-> NoUUID]
    /\ OwnMediaInit
    /\ New
    /\ ParserInit
    /\ ReaderInit
    /\ PoolInit
    /\ ServiceInit
    /\ CleanupInit
    /\ DepInit
    /\ DepInstalled

FingerprintNext ==
    \/ Enqueue_Normalize
    \/ GetJobByURLAndPreset_ID
    \/ Enqueue_UUID

FingerprintSpec == FingerprintSpecInit /\ [][FingerprintNext]_vars

\* the dependency manager from depMgr.Start on, on any platform and configuration
DepSpecInit ==
    /\ ParserInit
    /\ NoRequestInit
    /\ OwnMediaInit
    /\ New
    /\ ReaderInit
    /\ PoolInit
    /\ ServiceInit
    /\ downloader = "ytdlp"
    /\ CleanupInit
    /\ DepInit

DepNext ==
    \/ Start
    \/ StartUpdateChecker
    \/ \E k \in Kinds : Release(k)
    \/ Shutdown

DepSpec == DepSpecInit /\ [][DepNext]_vars

TypeOK ==
    /\ downloader \in Downloaders
    /\ \A id \in IDs : jobs[id] = NoJob \/ jobs[id].progress \in 0..fullProgress
    /\ Len(JobQueue) <= queueSize
    /\ closed \in BOOLEAN

(* ---- properties --------------------------------------------------------- *)

\* C1: of concurrent Enqueue calls with the same fingerprint, made while the first
\* job is non-terminal, exactly one creates a Job: no Enqueue inserts a Job over a
\* Job of that fingerprint that is starting or downloading.
C1_OneJobPerFingerprint ==
    [][\A e \in CallerIDs : Enqueue_SetJob(e)
            => jobs[eid[e]].status \notin {JobStatusStarting, JobStatusDownloading}]_vars

\* C2, as stated: an Enqueue that finds the queue full returns queue_full (it takes
\* the default branch whatever else holds), and the Job it inserted has status error.
C2_FullQueueReturnsQueueFull ==
    [][\A e \in CallerIDs :
         /\ (epc[e] = "send" /\ Len(JobQueue) >= queueSize /\ epc'[e] # "send")
                => epc'[e] = "full"
         /\ (epc[e] = "full" /\ epc'[e] # "full")
                => /\ ret' = Return("Enqueue", eid[e], "queue_full")
                   /\ jobs'[eid[e]].status = JobStatusError]_vars

\* C2, amended: an Enqueue that finds the queue full returns queue_full, without
\* waiting for room, and leaves the Job it inserted with status error, unless the
\* caller's context is done: then it returns enqueue_cancelled.
C2_FullQueueUnlessCtxDone ==
    [][\A e \in CallerIDs :
         /\ (epc[e] = "send" /\ Len(JobQueue) >= queueSize /\ epc'[e] # "send")
                => \/ epc'[e] = "full"
                   \/ /\ ret' = Return("Enqueue", eid[e], "enqueue_cancelled")
                      /\ UNCHANGED <<jobs, JobQueue>>
         /\ (epc[e] = "full" /\ epc'[e] # "full")
                => /\ ret' = Return("Enqueue", eid[e], "queue_full")
                   /\ jobs'[eid[e]].status = JobStatusError
                   /\ JobQueue' = JobQueue]_vars

\* C2 witness: with the queue full and no worker at work, an Enqueue for a
\* fingerprint that is not in the queue has returned queue_full, its Job in error
C2_Witness ==
    \E id \in IDs :
        /\ ret = Return("Enqueue", id, "queue_full")
        /\ Len(JobQueue) = queueSize
        /\ \A i \in 1..Len(JobQueue) : JobQueue[i] # id
        /\ \A w \in WorkerIDs : wpc[w] = "idle"
        /\ jobs[id].status = JobStatusError
        /\ jobs[id].error = "job queue is full"

\* C3, as stated: an Enqueue call either creates and queues a Job or returns the
\* existing one with job_already_exists; it has no other outcome.
C3_CreatesAndQueuesOrExists ==
    ret.op = "Enqueue" => ret.res \in {"ok", "job_already_exists"}

\* C3, amended: an Enqueue of an open service goes on to insert a new Job, with
\* status starting, iff its lookup finds no job or a job in error; otherwise it
\* returns job_already_exists and changes neither the registry nor the queue. The
\* inserted Job is pushed onto the queue unless the queue is full or the caller's
\* context is done.
C3_CreatesIffAbsentOrError ==
    [][\A e \in CallerIDs :
         /\ (epc[e] = "lookup" /\ epc'[e] # "lookup")
                => IF jobs[eid[e]] = NoJob \/ jobs[eid[e]].status = JobStatusError
                   THEN epc'[e] = "set" /\ UNCHANGED <<jobs, JobQueue>>
                   ELSE /\ ret' = Return("Enqueue", eid[e], "job_already_exists")
                        /\ UNCHANGED <<storageVars, JobQueue>>
         /\ (epc[e] = "set" /\ epc'[e] # "set")
                => /\ jobs'[eid[e]].status = JobStatusStarting
                   /\ \A id \in IDs \ {eid[e]} : jobs'[id] = jobs[id]
                   /\ epc'[e] = "send"
         /\ (epc[e] = "send" /\ epc'[e] # "send")
                => \/ /\ ret' = Return("Enqueue", eid[e], "ok")
                      /\ JobQueue' = Append(JobQueue, eid[e])
                   \/ /\ ret' = Return("Enqueue", eid[e], "enqueue_cancelled")
                      /\ JobQueue' = JobQueue
                   \/ /\ Len(JobQueue) >= queueSize
                      /\ epc'[e] = "full"
                      /\ JobQueue' = JobQueue]_vars

\* C3 witness: the second Enqueue of a fingerprint has found its job in error,
\* while nothing else is going on, and is about to replace it
C3_Witness ==
    \E e \in CallerIDs :
        /\ epc[e] = "set"
        /\ jobs[eid[e]].status = JobStatusError
        /\ calls.enqueue = 2
        /\ \A f \in CallerIDs \ {e} : epc[f] = "idle"
        /\ \A w \in WorkerIDs : wpc[w] = "idle"
        /\ \A c \in CancellerIDs : cpc[c] = "idle"

\* C4: when a Cancel of a job that a worker is executing has succeeded, the job's
\* status is cancelled when that worker has finished handling the job.
C4_CancelledAfterWorker ==
    [][\A w \in WorkerIDs :
         (processJob_Return(w) /\ w \in cancelled)
            => jobs[wjob[w]].status = JobStatusCancelled]_vars

\* C5: once a job's status is terminal it changes only by an Enqueue that
\* replaces a job in error.
C5_TerminalIsFinal ==
    [][\A id \in IDs :
         (jobs[id].status \in TerminalStatuses /\ jobs'[id].status # jobs[id].status)
            => /\ jobs[id].status = JobStatusError
               /\ \E e \in CallerIDs : Enqueue_SetJob(e) /\ eid[e] = id]_vars

\* C6: every job whose status is finished has progress 100 and at least one
\* publication, whichever downloader executed it.
C6_FinishedIsComplete ==
    \A id \in IDs :
        jobs[id].status = JobStatusFinished
            => jobs[id].progress = fullProgress /\ jobs[id].pubs > 0

\* C7: a job's status becomes cancelled only in a CancelJob of that job, or by a
\* worker whose jobCtx for that job has been cancelled.
C7_CancelledOnlyAfterCancel ==
    [][\A id \in IDs :
         (jobs'[id].status = JobStatusCancelled /\ jobs[id].status # JobStatusCancelled)
            => \/ \E c \in CancellerIDs : cpc[c] = "update" /\ cid[c] = id
               \/ \E w \in WorkerIDs : wjob[w] = id /\ wctx[w] = "canceled"]_vars

\* C7 witness: a job is cancelled though no CancelJob was ever called: the
\* context of its execution was cancelled by the shutdown
C7_Witness ==
    \E id \in IDs :
        /\ jobs[id].status = JobStatusCancelled
        /\ calls.cancel = 0
        /\ ctxDone

\* C8: when jobCtx has expired and Process has returned the error of that, the
\* job's status is error when the worker has finished handling the job (or it is
\* starting again, by a fresh Enqueue that replaced the job in error): it is not
\* cancelled, downloading or finished.
C8_TimeoutEndsInError ==
    [][\A w \in WorkerIDs :
         (/\ processJob_Return(w)
          /\ wctx[w] = "deadline"
          /\ werr[w] \in {"signal: killed", "context deadline"})
            => jobs[wjob[w]].status \in {JobStatusError, JobStatusStarting}]_vars

\* C9: after a Cancel of a job has succeeded, a further Cancel of that job
\* returns not_cancellable and changes nothing.
C9_RepeatedCancelNotCancellable ==
    [][\A c \in CancellerIDs : \A w \in WorkerIDs :
         (w \in cancelled /\ CancelJob_Read(c, wjob[w]))
            => /\ ret' = Return("CancelJob", wjob[w], "not_cancellable")
               /\ UNCHANGED <<jobs, wctx>>]_vars

\* C10: a CancelJob of a non-terminal job that finds no cancel func registered
\* returns not_cancellable, cancels no context and leaves the job as it is.
C10_NoHandleNotCancellable ==
    [][\A c \in CancellerIDs :
         (cpc[c] = "getfunc" /\ cpc'[c] # "getfunc" /\ cancelFuncs[cid[c]] = NoWorker)
            => /\ ret' = Return("CancelJob", cid[c], "not_cancellable")
               /\ cpc'[c] = "idle"
               /\ UNCHANGED <<jobs, wctx, cancelFuncs>>]_vars

\* C10 witness: CancelJob of a job that is starting and still in the queue, with
\* no cancel func registered, has returned not_cancellable
C10_Witness ==
    \E id \in IDs :
        /\ ret = Return("CancelJob", id, "not_cancellable")
        /\ jobs[id].status = JobStatusStarting
        /\ \E i \in 1..Len(JobQueue) : JobQueue[i] = id
        /\ cancelFuncs[id] = NoWorker

\* C11: once the context given to Start is done, an Enqueue call that starts
\* returns service_closed (and so inserts no Job and queues nothing).
C11_ClosedOnceCtxDone ==
    [][\A e \in CallerIDs : \A id \in IDs :
         (ctxDone /\ Enqueue_Closed(e, id))
            => ret' = Return("Enqueue", id, "service_closed")]_vars

\* C12: once the context given to Start is done, no worker receives a job from
\* the queue.
C12_NoDequeueAfterCtxDone ==
    [][\A w \in WorkerIDs : worker_Receive(w) => ~ctxDone]_vars

\* C13: SIGINT does not abort a job that a worker is executing: the jobCtx of an
\* execution that is live before the signal is live after it.
C13_ShutdownKeepsJobsRunning ==
    [][Shutdown => \A w \in WorkerIDs :
                     (Executing(w) /\ wctx[w] = "live") => wctx'[w] = "live"]_vars

\* C14: when cleanupJob has deleted a job whose ExpiresAt is in the past, the job
\* is absent, no publication stored for it is left in stg.publications and no file
\* of such a publication is left on disk.
C14_ExpiredJobGone ==
    [][(cleanupJob_Delete /\ Head(expiredJobs) \in pastExpiry)
          => /\ jobs'[Head(expiredJobs)] = NoJob
             /\ \A pub \in publications :
                   pub[1] = Head(expiredJobs) => pub \notin publications' /\ pub \notin files']_vars

\* C15: a step of the cleanup loop changes no job whose ExpiresAt is not in the
\* past, and removes none of its publications and none of its files.
C15_UnexpiredUntouched ==
    [][CleanupExpiredJobs
          => \A id \in IDs :
               (jobs[id] # NoJob /\ id \notin pastExpiry)
                  => /\ jobs'[id] = jobs[id]
                     /\ \A pub \in publications : pub[1] = id => pub \in publications'
                     /\ \A f \in files : f[1] = id => f \in files']_vars

\* the goroutine is inside InstallAll or inside checkAndUpdate
InCycle(p) == dpc[p] \notin {"new", "off", "spawn", "started", "select", "exited", "panicked"}

\* C16, as stated: a tick of the update ticker that arrives while a cycle is in
\* progress is skipped: it leaves nothing behind that starts a cycle later.
C16_TickDuringCycleSkipped ==
    [][(Ticker_Tick /\ isUpdating) => tickPending' = tickPending]_vars

\* C16, amended: InstallAll and the update cycles never run at the same time, at
\* most one cycle is in progress and isUpdating is set exactly then; a tick that
\* arrives while a cycle is in progress is not received before the cycle is over,
\* and every tick received starts a cycle.
C16_OneCycleAtATime ==
    [][/\ ~(InCycle(Starter)' /\ InCycle(Checker)')
       /\ isUpdating' = InCycle(Checker)'
       /\ (tickPending /\ ~tickPending') => (~isUpdating /\ isUpdating')]_vars

\* C16 witness: a tick is waiting in ticker.C while the update cycle installs a binary
C16_Witness ==
    /\ tickPending
    /\ isUpdating
    /\ dpc[Checker] = "download"

\* C17: a kind whose update failed is found to need an update by the next cycle
\* that fetches the sums, as long as the fetched hash differs from the hash of the
\* binary installed.
C17_FailedUpdateRetried ==
    [][\A k \in Kinds :
         (checkAndUpdate_FindUpdates /\ k \in failedUpdates /\ binFile[k] # shaSums[k])
            => k \in updates']_vars

\* C18: when downloadAndInstall of a kind returns an error, the binary that was
\* installed for that kind is as it was, and so is the kind's entry of binPaths.
C18_FailedUpdateKeepsBinary ==
    [][\A p \in DepProcs :
         (/\ dkind[p] # NoKind
          /\ binFile[dkind[p]] \in Hashes
          /\ dret' # dret
          /\ dret'.op = "downloadAndInstall"
          /\ dret'.id = dkind[p]
          /\ dret'.res # "ok")
            => /\ binFile'[dkind[p]] = binFile[dkind[p]]
               /\ binPaths'[dkind[p]] = binPaths[dkind[p]]]_vars

PlatformURLConfigured == platform \in Archs /\ urlConfigured[platform]

\* C20, as stated: with no URL configured for the current platform,
\* downloadAndInstall fails at getBinaryURL and nothing is downloaded.
C20_NoPlatformURLFails ==
    [][\A p \in DepProcs :
         (dpc[p] = "selectURL" /\ dpc'[p] # "selectURL" /\ ~PlatformURLConfigured)
            => /\ dret' = Return("downloadAndInstall", dkind[p], "no download URL configured")
               /\ UNCHANGED <<binFile, dtmp>>]_vars

\* C20, amended: downloadAndInstall fails at getBinaryURL, and nothing is
\* downloaded, iff neither the URL of the current platform nor the linux/amd64
\* URL is configured; with only the linux/amd64 URL it goes on to download that.
C20_NoURLAtAllFails ==
    [][\A p \in DepProcs :
         (dpc[p] = "selectURL" /\ dpc'[p] # "selectURL")
            => IF ~PlatformURLConfigured /\ ~urlConfigured["linux/amd64"]
               THEN /\ dret' = Return("downloadAndInstall", dkind[p],
                                      "no download URL configured")
                    /\ UNCHANGED <<binFile, dtmp>>
               ELSE dpc'[p] = "download"]_vars

\* C20 witness: on linux/arm64 with no URL configured at all, the install of a
\* missing binary has failed for want of a URL
C20_Witness ==
    \E k \in Kinds :
        /\ platform = "linux/arm64"
        /\ urlConfigured = [a \in Archs |-> FALSE]
        /\ binFile[k] = NoFile
        /\ dret = Return("downloadAndInstall", k, "no download URL configured")

\* C21: once Start has returned in managed mode, GetInstalledPath of every kind is
\* the kind's install path, and a non-empty binary is there.
C21_InstalledPathAfterStart ==
    dpc[Starter] = "started"
        => \A k \in Kinds : /\ GetInstalledPath(k) = GetBinaryPath(k)
                            /\ binFile[k] \in Hashes

\* C22: every step leaves in the sums file either the complete mapping it held
\* before or the complete mapping being saved, a failed save included.
C22_SumsFileAtomic ==
    [][sumsFile' = sumsFile \/ sumsFile' = shaSums]_vars

C24_ProgressNeverDecreases ==
    [][\A id \in IDs :
         (/\ jobs[id] # NoJob
          /\ jobs'[id] # NoJob
          /\ ~\E e \in CallerIDs : Enqueue_SetJob(e))
            => jobs'[id].progress >= jobs[id].progress]_vars


\* C25: the driver emits at most one progress update per progress throttle
\* interval for a job: when handleProgress reports progress for a job, no
\* execution of that job has reported progress less than defaultProgressFreq ago.
C25_ProgressUpdatesThrottled ==
    [][\A w \in WorkerIDs, pr \in ProgressValues :
         handleProgress(w, pr)
            => \A v \in WorkerIDs :
                 (wpc[v] = "run" /\ wjob[v] = wjob[w]) => lastUpdate[v].since # SinceUpdate]_vars


\* C26: jobs are handed to workers in the order in which Enqueue pushed them: a
\* push leaves the waiting jobs in place in front of the new one, and a worker
\* that receives takes the first waiting job and leaves the others in their order.
C26_QueueIsFIFO ==
    [][/\ Len(JobQueue') > Len(JobQueue)
            => SubSeq(JobQueue', 1, Len(JobQueue)) = JobQueue
       /\ Len(JobQueue') < Len(JobQueue)
            => /\ JobQueue' = Tail(JobQueue)
               /\ \E w \in WorkerIDs : /\ wpc[w] = "idle"
                                       /\ wpc'[w] = "register"
                                       /\ wjob'[w] = Head(JobQueue)]_vars

\* a worker has just received job 1, which was pushed before job 2, and job 2 waits
C26_Witness ==
    /\ \E w \in WorkerIDs : wpc[w] = "register" /\ wjob[w] = 1
    /\ JobQueue = <<2>>
    /\ ret = NoReturn
    /\ calls.enqueue = 2
    /\ \A e \in CallerIDs : epc[e] = "idle"


\* what a call UpdateJobStatus(id, status, progress, errorMsg) on an existing job
\* does in the step taken
UpdateJobStatusEffect(id, status, progress, errorMsg) ==
    jobs[id] # NoJob
        => /\ jobs'[id] # NoJob
           /\ jobs'[id].status = status
           /\ jobs'[id].progress = (IF progress # 0 THEN progress ELSE jobs[id].progress)
           /\ jobs'[id].error = (IF errorMsg # "" THEN errorMsg ELSE jobs[id].error)
           /\ jobs'[id].pubs = jobs[id].pubs
           /\ \A other \in IDs \ {id} : jobs'[other] = jobs[other]

\* C27: UpdateJobStatus on an existing job sets the status, overwrites progress
\* only when the passed progress is non-zero and the error message only when the
\* passed message is non-empty, and leaves the job's publications and every
\* other job as they were; checked at every call that the service and the
\* downloaders make.
C27_UpdateStatusFrame ==
    [][/\ \A e \in CallerIDs :
            Enqueue_QueueFull(e)
                => UpdateJobStatusEffect(eid[e], JobStatusError, 0, "job queue is full")
       /\ \A c \in CancellerIDs :
            CancelJob_Update(c)
                => UpdateJobStatusEffect(cid[c], JobStatusCancelled, 0, "job cancelled by user")
       /\ \A w \in WorkerIDs :
            /\ Process_Start(w) => UpdateJobStatusEffect(wjob[w], JobStatusDownloading, 0, "")
            /\ \A pr \in ProgressValues :
                 handleProgress(w, pr)
                    => UpdateJobStatusEffect(wjob[w], JobStatusDownloading, pr, "")
            /\ mock_Tick(w)
                 => UpdateJobStatusEffect(wjob[w], JobStatusDownloading, mockProgress(wstep[w]), "")
            /\ (mock_Finish(w) \/ Process_Finish(w))
                 => UpdateJobStatusEffect(wjob[w], JobStatusFinished, fullProgress, "")
            /\ processJob_Error(w)
                 => UpdateJobStatusEffect(wjob[w], processJobErrStatus(wctx[w]), 0,
                                          processJobErrMsg(wctx[w], werr[w]))]_vars

\* a failed run's UpdateJobStatus(error, 0, message) has set status and message and
\* has kept the progress that the run had reported
C27_Witness ==
    \E id \in IDs : /\ jobs[id] # NoJob
                    /\ jobs[id].status = JobStatusError
                    /\ jobs[id].progress = 50
                    /\ jobs[id].error = "exit status"


\* C28: UpdateJobStatus, SetPublication and UpdateJobPublications for an id that
\* is not in the registry change nothing: a worker that reports on a job which
\* the sweep has removed leaves the jobs and the publications as they are, and
\* the job stays absent.
C28_UnknownIdChangesNothing ==
    [][\A w \in WorkerIDs :
         (/\ \/ Process_Start(w)
             \/ \E pr \in ProgressValues : handleProgress(w, pr)
             \/ storePublications(w)
             \/ Process_UpdatePublications(w)
             \/ Process_Finish(w)
             \/ processJob_Error(w)
          /\ jobs[wjob[w]] = NoJob)
            => UNCHANGED <<jobs, publications>>]_vars

\* the job was gone when the worker stored its publications, no Enqueue has put it
\* back, and the worker has reported the failure with UpdateJobStatus
C28_Witness ==
    \E w \in WorkerIDs : /\ wpc[w] = "unregister"
                         /\ werr[w] = "store publications"
                         /\ jobs[wjob[w]] = NoJob
                         /\ calls.enqueue = 1


\* C29: when the subprocess has exited with a non-zero code of its own accord and
\* Process has returned that error, the job is in error when the worker has
\* finished handling it (or it is starting again, by a fresh Enqueue that
\* replaced the job in error): it is not finished, and no publication is stored
\* for it.
C29_ExitFailureEndsInError ==
    [][\A w \in WorkerIDs :
         (processJob_Return(w) /\ werr[w] = "exit status")
            => /\ jobs[wjob[w]].status \in {JobStatusError, JobStatusStarting}
               /\ jobs[wjob[w]].pubs = 0
               /\ \A p \in publications : p[1] # wjob[w]]_vars


\* what the claim expects of the lines s: one result for every line that is a JSON
\* object, in their order; its filename is the last file path line that follows it
\* before the next JSON line, or else the filename the JSON line itself carries. A
\* file path line in front of the first JSON line belongs to no result.
ExpectedResults(s) ==
    LET jsonAt == {i \in 1..Len(s) : Unmarshal(TrimSpace(s[i])).ok}
        pathAt == {i \in 1..Len(s) : reFilepath(TrimSpace(s[i]))}
        nth(k) == CHOOSE i \in jsonAt : Cardinality({j \in jsonAt : j <= i}) = k
        after(p) == {j \in pathAt : j > p /\ \A q \in jsonAt : q < j => q <= p}
        last(S) == CHOOSE j \in S : \A m \in S : m <= j
    IN [k \in 1..Cardinality(jsonAt) |->
          [ID |-> Unmarshal(TrimSpace(s[nth(k)])).r.ID,
           Filename |-> IF after(nth(k)) = {}
                        THEN Unmarshal(TrimSpace(s[nth(k)])).r.Filename
                        ELSE TrimSpace(s[last(after(nth(k)))])]]

\* C30: a line that matches the file path pattern sets the filename of the most
\* recent JSON result parsed before it; a file path line before any JSON result is
\* attached to no result and raises no error: after every line the results are
\* those expected of the lines scanned, and ParseYtdlpStdout returns a nil error.
C30_FilepathSetsMostRecentResult ==
    /\ results = ExpectedResults(SubSeq(stdout, 1, lineNo))
    /\ ret.op = "ParseYtdlpStdout" => ret.res = "ok"

\* ParseYtdlpStdout has returned for a file path line, two JSON lines and another
\* file path line: the first path is dropped, the second is the filename of the
\* second result and replaces the one its JSON line carried
C30_Witness ==
    /\ ret = Return("ParseYtdlpStdout", NoID, "ok")
    /\ stdout = <<"/tmp/a.mp4", "{\"id\":\"one\"}",
                  "{\"id\":\"two\",\"filename\":\"/tmp/two.webm\"}", " /tmp/b.mkv">>
    /\ results = <<[ID |-> "one", Filename |-> ""], [ID |-> "two", Filename |-> "/tmp/b.mkv"]>>


C32_TerminalJobIsSkipped ==
    [][\A w \in WorkerIDs :
         (worker_Receive(w) /\ jobs[Head(JobQueue)].status \in TerminalStatuses)
            => /\ wpc'[w] = "idle"
               /\ jobs' = jobs]_vars

\* C33: no two workers are executing a job with the same id at the same time,
\* from the moment each has received it until its processJob has returned.
C33_NoTwoWorkersOnOneId ==
    \A v, w \in WorkerIDs :
        (v # w /\ Executing(v) /\ Executing(w))
            => wjob[v] # wjob[w]

\* C35: while a worker is executing a job, between RegisterCancelFunc and the
\* deferred UnregisterCancelFunc, the cancel func registered under the job's id is
\* the one of that execution; an id no worker is executing has no cancel func.
C35_HandleBelongsToTheExecution ==
    LET Registered(w) ==
            wpc[w] \in {"start", "run", "compose", "store", "finish", "failed", "unregister"}
    IN  /\ \A w \in WorkerIDs : Registered(w) => cancelFuncs[wjob[w]] = w
        /\ \A id \in IDs :
              (\A w \in WorkerIDs : ~(Registered(w) /\ wjob[w] = id))
                  => cancelFuncs[id] = NoWorker

\* C34: every publication listed in a job whose status is finished is stored in
\* stg.publications, so GetPublicationByID finds it.
C34_FinishedJobsArtifactsRetrievable ==
    \A id \in IDs :
        (jobs[id] # NoJob /\ jobs[id].status = JobStatusFinished)
            => \A i \in 1..jobs[id].pubs : PublicationUUID(id, i) \in publications

\* C36: while the context given to Start is not cancelled, a job for which Enqueue
\* returned success is eventually received by a worker and reaches finished, error
\* or cancelled.
C36_AcceptedJobReachesTerminal ==
    \A id \in IDs :
        (ret = Return("Enqueue", id, "ok")) ~> (jobs[id].status \in TerminalStatuses)

\* C37: when Enqueue has returned queue_full, enqueue_cancelled or service_closed
\* for an id, the registry holds no job for that id that is neither terminal nor
\* waiting in JobQueue nor being executed by a worker.
C37_FailedEnqueueLeavesNoStuckJob ==
    \A id \in IDs :
        ret \in {Return("Enqueue", id, r) :
                    r \in {"queue_full", "enqueue_cancelled", "service_closed"}}
            => \/ jobs[id] = NoJob
               \/ jobs[id].status \in TerminalStatuses
               \/ \E i \in 1..Len(JobQueue) : JobQueue[i] = id
               \/ \E w \in WorkerIDs : Executing(w) /\ wjob[w] = id

\* C38: when Enqueue has returned job_already_exists for an id, the job of that id
\* is waiting in JobQueue, being executed, finished or cancelled, or the Enqueue that
\* created it has yet to reach its select; it is not a job whose Enqueue has failed
\* or has taken the branch that fails.
C38_ExistingJobIsLive ==
    \A id \in IDs :
        ret = Return("Enqueue", id, "job_already_exists")
            => \/ \E i \in 1..Len(JobQueue) : JobQueue[i] = id
               \/ \E w \in WorkerIDs : Executing(w) /\ wjob[w] = id
               \/ jobs[id].status \in {JobStatusFinished, JobStatusCancelled}
               \/ \E e \in CallerIDs : epc[e] = "send" /\ eid[e] = id

\* C39: every publication in stg.publications is a publication of a job that is
\* in stg.jobs.
C39_ArtifactsBelongToStoredJobs ==
    \A pub \in publications :
        \E id \in IDs : jobs[id] # NoJob /\ pub = PublicationUUID(id, pub[2])

\* C40: a proxy with MaxFailures or more failures since its last MarkSuccess or
\* RestoreProxy is returned by neither GetRandomProxy nor GetProxy while the time
\* is before its BackoffUntil; once the time is after BackoffUntil, and whenever
\* the proxy has no failures, it is a candidate of GetRandomProxy and GetProxy
\* does not refuse it.
C40_BackoffKeepsProxyOut ==
    LET InBackoff(p) == proxies[p].FailureCount >= MaxFailures /\ now < proxies[p].BackoffUntil
        BackoffOver(p) == proxies[p].FailureCount >= MaxFailures /\ now > proxies[p].BackoffUntil
        Candidates == {getAvailableProxies[i] : i \in 1..Len(getAvailableProxies)}
    IN  /\ selected.ok => ~InBackoff(selected.proxy)
        /\ \A p \in DOMAIN proxies :
              /\ InBackoff(p) => p \notin Candidates
              /\ (BackoffOver(p) \/ proxies[p].FailureCount = 0) =>
                    /\ p \in Candidates
                    /\ ~(selected.op = "GetProxy" /\ selected.arg = p /\ ~selected.ok)

C40_Witness ==
    /\ selected = [op |-> "GetRandomProxy", arg |-> "", proxy |-> "socks5h://a:1080", ok |-> TRUE]
    /\ proxies["socks5h://a:1080"].FailureCount = MaxFailureCount
    /\ proxies["socks5h://a:1080"].BackoffUntil = 3 + maxBackoff
    /\ now > proxies["socks5h://a:1080"].BackoffUntil
    /\ proxies["socks5h://b:1080"].FailureCount >= MaxFailures
    /\ now < proxies["socks5h://b:1080"].BackoffUntil

====
